---- MODULE Spec2Model ----
(***************************************************************************)
(* A model of the pull-request tracking of openedx-webhooks:               *)
(* tasks/pr_tracking.py (current_support_state, desired_support_state,     *)
(* PrTrackingFixer, FixingActions) for one pull request, its Jira issues   *)
(* and the bot's comments on it.                                           *)
(*                                                                         *)
(* A reconciliation run is one action: it reads the pull request, the bot  *)
(* comments and the mentioned Jira issue, computes the desired state, and  *)
(* applies every action of PrTrackingFixer.fix to GitHub and Jira.  The    *)
(* other actions are what people do between runs: the author edits the     *)
(* pull request, somebody edits, moves or deletes the Jira issue.          *)
(*                                                                         *)
(* Further specifications follow the same fixer where a run is not one     *)
(* step: SpecDelivery has runs that an action failure aborts and events    *)
(* that are delivered again; SpecConcurrent has runs in flight at the same *)
(* time, call by call, on one or two pull requests, with FixingActions or  *)
(* DryRunFixingActions.                                                    *)
(***************************************************************************)
EXTENDS Integers, Sequences, FiniteSets, TLC

VARIABLES
    pr,         \* the pull request as GitHub holds it (the PrDict of a run)
    epics,      \* the epics Jira holds for each blended project id
    issues,     \* the Jira issues of this pull request that exist
    comments,   \* the bodies of the bot's comments on the pull request, in order
    nextKey,    \* the number Jira gives the next issue key
    repoLabels, \* whether the repository's label set has been synchronized
    last,       \* the last run: what it read, what it wanted, what it did
    hist,       \* what the claims need of the history before the last run
    budget,     \* how many more runs and outside events the model explores
    delivery,   \* SpecDelivery: the run that a failing action aborted, or whose
                \* event was delivered a second time
    github,     \* SpecConcurrent: the pull requests and their bot comments
    inflight,   \* SpecConcurrent: the runs in flight, each with its fixer's position
    jira_ids,   \* DryRunFixingActions.jira_ids: the next number the class hands out
    cla         \* SpecCla: the commits of a pull request, their statuses on GitHub,
                \* and the last call of update_commit_status_for_cla

vars == <<pr, epics, issues, comments, nextKey, repoLabels, last, hist, budget,
          delivery, github, inflight, jira_ids, cla>>

----------------------------------------------------------------------------
(* Bounds of the model. *)

\* runs of pull_request_changed explored in one behaviour
MaxRuns == 3
\* events outside the bot (the author edits the pull request, a person edits,
\* moves or deletes the Jira issue) explored in one behaviour
MaxEvents == 2

----------------------------------------------------------------------------
(* Values. Python's None is NoneStr for a string, NoId for an issue key,  *)
(* NoEpic for an epic.                                                     *)

NoneStr == "None"
NoId == [proj |-> "None", num |-> 0]
NoEpic == [key |-> NoId, map12 |-> NoneStr]

\* An issue key "OSPR-12" is [proj |-> "OSPR", num |-> 12];
\* key.partition("-")[0] is its proj.
project_of(key) == key.proj

\* The blended epics of Jira: one with a platform map area, two without.
Epic1 == [key |-> [proj |-> "BLENDED", num |-> 100], map12 |-> "Researcher & Data Experiences"]
Epic2 == [key |-> [proj |-> "BLENDED", num |-> 101], map12 |-> NoneStr]
Epic3 == [key |-> [proj |-> "BLENDED", num |-> 102], map12 |-> NoneStr]

\* Jira statuses: the ones the bot sets and one only a person sets.
BotStatuses == {"Needs Triage", "Waiting on Author", "Community Manager Review",
                "Merged", "Rejected"}
HumanStatuses == {"Architecture Review", "Waiting on Author"}
Statuses == BotStatuses \cup HumanStatuses

\* str.lower() on a status name
lower(s) ==
    CASE s = "Needs Triage" -> "needs triage"
      [] s = "Waiting on Author" -> "waiting on author"
      [] s = "Community Manager Review" -> "community manager review"
      [] s = "Merged" -> "merged"
      [] s = "Rejected" -> "rejected"
      [] s = "Architecture Review" -> "architecture review"
      [] OTHER -> s

\* labels.py
GITHUB_CATEGORY_LABELS == {"blended", "core committer", "open-source-contribution", "NEED-CLA"}
GITHUB_STATUS_LABELS == {lower(s) : s \in Statuses}
JIRA_CATEGORY_LABELS == {"blended", "core-committer"}

\* Labels people put on the pull request and on the issue.
AdHocPrLabels == {"pretty"}
AdHocJiraLabels == {"my-label"}

JIRA_EXTRA_FIELDS == {
    "Platform Map Area (Levels 1 & 2)",
    "Platform Map Area (Levels 3 & 4)",
    "Blended Project Status Page",
    "Blended Project ID",
    "Github Lines Added",
    "Github Lines Deleted"}

\* bot_comments.py: the kinds of bot comment, and the ones that are parts of
\* the first comment.
BotComment == {"WELCOME", "WELCOME_CLOSED", "NEED_CLA", "CONTRACTOR", "CORE_COMMITTER",
               "BLENDED", "OK_TO_TEST", "END_OF_WIP", "CHAMPION_MERGE_PING"}
BOT_COMMENTS_FIRST == BotComment \ {"CHAMPION_MERGE_PING"}

\* The empty dict.
EmptyDict == [k \in {} |-> NoneStr]

\* d with d[k] = v, as Python's d[k] = v on a dict
DictSet(d, k, v) == [x \in DOMAIN d \cup {k} |-> IF x = k THEN v ELSE d[x]]

\* {k: v for k, v in d.items() if k in keys}
DictRestrict(d, keys) == [x \in DOMAIN d \cap keys |-> d[x]]

\* d.get(k, default)
DictGet(d, k, default) == IF k \in DOMAIN d THEN d[k] ELSE default

----------------------------------------------------------------------------
(* The dataclasses. *)

\* PrCurrentInfo()
PrCurrentInfo == [
    bot_comments |-> {},
    bot_comment0_text |-> [none |-> TRUE],
    last_seen_state |-> EmptyDict,
    jira_mentioned_id |-> NoId,
    jira_id |-> NoId,
    jira_title |-> NoneStr,
    jira_description |-> NoneStr,
    jira_status |-> NoneStr,
    jira_labels |-> {},
    jira_epic_key |-> NoId,
    jira_epic |-> NoEpic,
    jira_extra_fields |-> EmptyDict,
    github_labels |-> {},
    author_acted |-> FALSE]

\* PrDesiredInfo()
PrDesiredInfo == [
    bot_comments |-> {},
    jira_project |-> NoneStr,
    jira_title |-> NoneStr,
    jira_description |-> NoneStr,
    jira_initial_status |-> NoneStr,
    jira_status |-> NoneStr,
    jira_labels |-> {},
    jira_epic |-> NoEpic,
    jira_extra_fields |-> EmptyDict,
    github_labels |-> {}]

----------------------------------------------------------------------------
(* The pull request, and what info.py reads from it.                       *)
(* pr is [author, cla, state, merged, draft, title, body, lines, labels]:  *)
(* author is the kind of account that opened it; lines is the part of the  *)
(* PrDict that holds "additions" and "deletions" when GitHub sends them.   *)

Authors == {"bot", "internal", "contractor", "committer", "external"}
PlainTitles == {"Fix", "Fix more"}
BlendedTitles == {"[BD-34] Fix", "[BD-35] Fix", "[BD-36] Fix"}
Titles == PlainTitles \cup BlendedTitles

is_bot_pull_request(p) == p.author = "bot"
is_internal_pull_request(p) == p.author = "internal"
is_contractor_pull_request(p) == p.author = "contractor"
is_committer_pull_request(p) == p.author = "committer"
is_draft_pull_request(p) == p.draft
pull_request_has_cla(p) == p.cla
get_blended_project_id(p) ==
    CASE p.title = "[BD-34] Fix" -> "BD-34"
      [] p.title = "[BD-35] Fix" -> "BD-35"
      [] p.title = "[BD-36] Fix" -> "BD-36"
      [] OTHER -> NoneStr

\* find_blended_epic: the epic of the blended project, when the search
\* finds exactly one (eps[project_id] is what the search returns).
find_blended_epic(eps, project_id) ==
    LET found == eps[project_id]
    IN IF Cardinality(found) = 1 THEN CHOOSE e \in found : TRUE ELSE NoEpic

----------------------------------------------------------------------------
(* desired_support_state *)

NoDesired == [none |-> TRUE]

\* The part of desired_support_state from the blended test to the comment.
desired_project(p, eps, d) ==
    IF get_blended_project_id(p) # NoneStr
    THEN LET blended_epic == find_blended_epic(eps, get_blended_project_id(p))
             d1 == [d EXCEPT !.bot_comments = @ \cup {"BLENDED"},
                             !.jira_project = "BLENDED",
                             !.github_labels = @ \cup {"blended"},
                             !.jira_labels = @ \cup {"blended"}]
         IN IF blended_epic # NoEpic
            THEN [d1 EXCEPT !.jira_epic = blended_epic,
                            !.jira_extra_fields =
                                IF blended_epic.map12 # NoneStr
                                THEN DictSet(@, "Platform Map Area (Levels 1 & 2)", blended_epic.map12)
                                ELSE @]
            ELSE d1
    ELSE LET d1 == [d EXCEPT !.jira_project = "OSPR",
                             !.github_labels = @ \cup {"open-source-contribution"}]
         IN IF is_committer_pull_request(p)
            THEN [d1 EXCEPT !.jira_labels = @ \cup {"core-committer"},
                            !.jira_initial_status = "Waiting on Author",
                            !.bot_comments = @ \cup {"CORE_COMMITTER"}
                                \cup (IF p.state # "open" /\ p.merged
                                      THEN {"CHAMPION_MERGE_PING"} ELSE {}),
                            !.github_labels = @ \cup {"core committer"}]
            ELSE [d1 EXCEPT !.bot_comments = @ \cup {"WELCOME"}]

\* Mutant: a draft does not change the initial status.
draft_rule_keeps_status(p, d) ==
    IF is_draft_pull_request(p)
    THEN [d EXCEPT !.bot_comments = @ \cup {"END_OF_WIP"}]
    ELSE d

\* desired_support_state, lines 259-261: a draft waits on its author
draft_rule(p, d) ==
    IF is_draft_pull_request(p)
    THEN [d EXCEPT !.jira_initial_status = "Waiting on Author",
                   !.bot_comments = @ \cup {"END_OF_WIP"}]
    ELSE d

\* Mutant: a missing agreement leaves the initial status of a draft or a
\* committer's pull request alone.
cla_rule_after_draft(p, d) ==
    IF ~pull_request_has_cla(p)
    THEN [d EXCEPT !.bot_comments = @ \cup {"NEED_CLA"},
                   !.jira_initial_status =
                        IF @ = "Needs Triage" THEN "Community Manager Review" ELSE @,
                   !.github_labels = @ \cup {"NEED-CLA"}]
    ELSE d

\* desired_support_state, lines 263-266: no signed agreement
cla_rule(p, d) ==
    IF ~pull_request_has_cla(p)
    THEN [d EXCEPT !.bot_comments = @ \cup {"NEED_CLA"},
                   !.jira_initial_status = "Community Manager Review",
                   !.github_labels = @ \cup {"NEED-CLA"}]
    ELSE d

\* The rules after the comment kind: draft, agreement, forced status,
\* ok-to-test, line counts.
desired_status_rules(p, d) ==
    LET has_signed_agreement == pull_request_has_cla(p)
        state == IF p.state = "open" THEN "open"
                 ELSE IF p.merged THEN "merged" ELSE "closed"
        d1 == draft_rule(p, d)
        d2 == cla_rule(p, d1)
        d3 == IF state = "closed" THEN [d2 EXCEPT !.jira_status = "Rejected"]
              ELSE IF state = "merged" THEN [d2 EXCEPT !.jira_status = "Merged"]
              ELSE d2
        d4 == IF has_signed_agreement
              THEN [d3 EXCEPT !.bot_comments = @ \cup {"OK_TO_TEST"}]
              ELSE d3
        d5 == IF "additions" \in DOMAIN p.lines
              THEN [d4 EXCEPT !.jira_extra_fields =
                        DictSet(@, "Github Lines Added", p.lines["additions"])]
              ELSE d4
        d6 == IF "deletions" \in DOMAIN p.lines
              THEN [d5 EXCEPT !.jira_extra_fields =
                        DictSet(@, "Github Lines Deleted", p.lines["deletions"])]
              ELSE d5
    IN d6

\* Mutant: only the pull requests of bots are left untracked.
untracked_bots_only(p) == is_bot_pull_request(p)

\* desired_support_state, lines 203-209: no tracking for a bot's pull
\* request or an internal one
untracked(p) == is_bot_pull_request(p) \/ is_internal_pull_request(p)

\* Mutant: a contractor's pull request gets an issue in OSPR as well.
contractor_desired_with_issue ==
    [PrDesiredInfo EXCEPT !.bot_comments = {"CONTRACTOR"},
                          !.jira_project = "OSPR",
                          !.jira_title = "Fix",
                          !.jira_description = "",
                          !.jira_initial_status = "Needs Triage"]

\* desired_support_state, lines 211-215: a contractor's pull request
contractor_desired == [PrDesiredInfo EXCEPT !.bot_comments = {"CONTRACTOR"}]

desired_support_state(p, eps) ==
    IF untracked(p) THEN NoDesired
    ELSE IF is_contractor_pull_request(p) THEN contractor_desired
    ELSE LET d0 == [PrDesiredInfo EXCEPT
                        !.jira_initial_status = "Needs Triage",
                        !.jira_title = p.title,
                        !.jira_description = IF p.body = NoneStr THEN "" ELSE p.body]
         IN desired_status_rules(p, desired_project(p, eps, d0))

----------------------------------------------------------------------------
(* Bot comments. The text of a comment is a record of what its template    *)
(* puts into it: the blocks (one per first-comment kind rendered, or the   *)
(* merge ping), the issue key and the deleted issue key it names, the epic *)
(* of the blended block, the closed/merged, draft and agreement sentences, *)
(* the ok-to-test marker and the data the bot stores for its next run.     *)

NoText == [none |-> TRUE]
EmptyText == [blocks |-> {}, jira |-> NoId, deleted |-> NoId, epic |-> NoId,
              closed |-> "open", draft |-> FALSE, needcla |-> FALSE,
              oktotest |-> FALSE, champions |-> FALSE, data |-> <<>>]

IssueBlocks == {"WELCOME", "CORE_COMMITTER", "BLENDED"}

\* format_data_for_comment: the dict as the list of its items
format_data_for_comment(d) ==
    IF "draft" \in DOMAIN d THEN << <<"draft", d["draft"]>> >> ELSE << >>

\* extract_data_from_comment: the dict back from the items in the text
extract_data_from_comment(text) ==
    [k \in {text.data[i][1] : i \in 1..Len(text.data)} |->
        (text.data[CHOOSE i \in 1..Len(text.data) : text.data[i][1] = k])[2]]

\* BOT_COMMENT_INDICATORS: the kinds whose snippet is in a comment body
comment_kinds(text) ==
    text.blocks
    \cup (IF text.closed # "open" THEN {"WELCOME_CLOSED"} ELSE {})
    \cup (IF text.draft THEN {"END_OF_WIP"} ELSE {})
    \cup (IF text.needcla THEN {"NEED_CLA"} ELSE {})
    \cup (IF text.oktotest THEN {"OK_TO_TEST"} ELSE {})

\* The issue keys in a comment body, in the order of the text.
comment_keys(text) ==
    SelectSeq(<<text.jira, text.deleted>>, LAMBDA k : k # NoId)

\* get_jira_issue_key: the first issue key in the bot comments, if any
get_jira_issue_key(cs) ==
    LET with == SelectSeq(cs, LAMBDA c : Len(comment_keys(c)) > 0)
    IN IF Len(with) = 0 THEN NoId ELSE comment_keys(with[1])[1]

\* existing_bot_comments: <<text of the first bot comment, kinds present>>
existing_bot_comments(cs) ==
    << IF Len(cs) = 0 THEN NoText ELSE cs[1],
       UNION {comment_kinds(cs[i]) : i \in 1..Len(cs)} >>

----------------------------------------------------------------------------
(* Jira. An issue is [key, aka, summary, description, status, labels,      *)
(* epic_link, extra]: aka holds the keys it had before it was moved, which *)
(* Jira still resolves to it; extra holds the custom fields that are set.  *)

NoIssue == [none |-> TRUE]

\* get_jira_issue(key, missing_ok=True)
get_jira_issue(iss, key) ==
    IF \E i \in iss : i.key = key \/ key \in i.aka
    THEN CHOOSE i \in iss : i.key = key \/ key \in i.aka
    ELSE NoIssue

----------------------------------------------------------------------------
(* current_support_state *)

current_support_state(p, cs, iss) ==
    LET ebc == existing_bot_comments(cs)
        c0 == [PrCurrentInfo EXCEPT
                  !.bot_comment0_text = ebc[1],
                  !.bot_comments = ebc[2],
                  !.last_seen_state =
                      IF ebc[1] # NoText THEN extract_data_from_comment(ebc[1]) ELSE @,
                  !.jira_id = get_jira_issue_key(cs),
                  !.jira_mentioned_id = get_jira_issue_key(cs)]
        issue == get_jira_issue(iss, c0.jira_id)
        c1 == IF c0.jira_id = NoId THEN c0
              ELSE IF issue = NoIssue
              THEN [c0 EXCEPT !.jira_id = NoId]
              ELSE [c0 EXCEPT
                      !.jira_id = issue.key,
                      !.jira_title = issue.summary,
                      !.jira_description = issue.description,
                      !.jira_status = issue.status,
                      !.jira_labels = issue.labels,
                      !.jira_epic_key = issue.epic_link,
                      !.jira_extra_fields = DictRestrict(issue.extra, JIRA_EXTRA_FIELDS)]
        c2 == [c1 EXCEPT !.github_labels = p.labels]
    IN IF DictGet(c2.last_seen_state, "draft", FALSE) /\ ~is_draft_pull_request(p)
       THEN [c2 EXCEPT !.author_acted = TRUE]
       ELSE c2

----------------------------------------------------------------------------
(* The sinks: what each action does to GitHub and Jira.  w is the sink and *)
(* what it acts on: [issues, comments, labels, nextKey, repoLabels] of     *)
(* GitHub and Jira, sink ("live" for FixingActions, "dry" for              *)
(* DryRunFixingActions), and jira_ids and action_calls of the dry-run      *)
(* class and instance.                                                     *)

\* What create_ospr_issue returns. FixingActions: the issue Jira made, with
\* the next key of the project, as "Needs Triage". DryRunFixingActions: the
\* key OSPR-<next(jira_ids)> and the status "Needs Triage".
new_issue(w, a) == [
    key |-> IF w.sink = "dry" THEN [proj |-> "OSPR", num |-> w.jira_ids]
            ELSE [proj |-> a.project, num |-> w.nextKey],
    aka |-> {},
    summary |-> a.summary,
    description |-> a.description,
    status |-> "Needs Triage",
    labels |-> a.labels,
    epic_link |-> DictGet(a.extra_fields, "Epic Link", NoId),
    extra |-> DictRestrict(a.extra_fields, DOMAIN a.extra_fields \ {"Epic Link"})]

\* jira_work.update_jira_issue: puts the fields it is given
updated_issue(i, kw) == [i EXCEPT
    !.summary = DictGet(kw, "summary", @),
    !.description = DictGet(kw, "description", @),
    !.labels = DictGet(kw, "labels", @),
    !.epic_link = IF "extra_fields" \in DOMAIN kw
                  THEN DictGet(kw["extra_fields"], "Epic Link", DictGet(kw, "epic_link", @))
                  ELSE DictGet(kw, "epic_link", @),
    !.extra = IF "extra_fields" \in DOMAIN kw
              THEN [n \in DOMAIN @ \cup (DOMAIN kw["extra_fields"] \ {"Epic Link"}) |->
                        IF n \in DOMAIN kw["extra_fields"] THEN kw["extra_fields"][n] ELSE @[n]]
              ELSE @]

\* The effect of one action of FixingActions.
FixingActions(w, a) ==
    CASE a.name = "synchronize_labels" ->
            [w EXCEPT !.repoLabels = "synced"]
      [] a.name = "delete_jira_issue" ->
            [w EXCEPT !.issues = {i \in @ : i.key # a.jira_id}]
      [] a.name = "create_ospr_issue" ->
            [w EXCEPT !.issues = @ \cup {new_issue(w, a)}, !.nextKey = @ + 1]
      [] a.name = "transition_jira_issue" ->
            [w EXCEPT !.issues = {IF i.key = a.jira_id
                                  THEN [i EXCEPT !.status = a.jira_status]
                                  ELSE i : i \in @}]
      [] a.name = "update_jira_issue" ->
            [w EXCEPT !.issues = {IF i.key = a.jira_id
                                  THEN updated_issue(i, a.update_kwargs)
                                  ELSE i : i \in @}]
      [] a.name = "add_comment_to_pull_request" ->
            [w EXCEPT !.comments = Append(@, a.comment_body)]
      [] a.name = "edit_comment_on_pull_request" ->
            [w EXCEPT !.comments = [@ EXCEPT ![1] = a.comment_body]]
      [] a.name = "update_labels_on_pull_request" ->
            [w EXCEPT !.labels = a.labels]

\* Mutant: the override of create_ospr_issue hands out the key and leaves
\* the call out of action_calls.
DryRunFixingActions_unrecorded_create(w, a) ==
    IF a.name = "create_ospr_issue"
    THEN [w EXCEPT !.jira_ids = @ + 1]
    ELSE [w EXCEPT !.action_calls = Append(@, a)]

\* The effect of one action of DryRunFixingActions: create_ospr_issue and
\* __getattr__ append the call to action_calls, and create_ospr_issue takes
\* the next of jira_ids.
DryRunFixingActions(w, a) ==
    IF a.name = "create_ospr_issue"
    THEN [w EXCEPT !.action_calls = Append(@, a), !.jira_ids = @ + 1]
    ELSE [w EXCEPT !.action_calls = Append(@, a)]

\* self.actions.<name>(**kwargs) on the sink the fixer was given
apply_action(w, a) ==
    IF w.sink = "dry" THEN DryRunFixingActions(w, a) ELSE FixingActions(w, a)

----------------------------------------------------------------------------
(* PrTrackingFixer.  The fixer is a record f: the pull request, current,   *)
(* desired, last_seen_state, happened, the locals make_issue and           *)
(* comment_kwargs of fix, the actions called so far and the world they     *)
(* have acted on.  ok is false once an assertion or an action has failed:  *)
(* the exception ends the run, and no later statement of fix has effect.   *)

\* PrTrackingFixer.__init__; fail_at is the number of the action call that
\* raises (0: none does).
PrTrackingFixer(p, current, desired, w, fail_at) == [
    pr |-> p,
    current |-> current,
    desired |-> desired,
    last_seen_state |-> current.last_seen_state,
    happened |-> FALSE,
    make_issue |-> FALSE,
    comment_kwargs |-> EmptyDict,
    acts |-> <<>>,
    failed |-> <<>>,
    ok |-> TRUE,
    err |-> NoneStr,
    fail_at |-> fail_at,
    w |-> w]

\* Mutant: a call that raises is made a second time, and the run goes on.
call_retrying(f, a) ==
    IF ~f.ok THEN f
    ELSE IF Len(f.acts) + 1 = f.fail_at /\ f.failed = <<>>
    THEN [f EXCEPT !.failed = <<a, a>>, !.acts = Append(@, a), !.w = apply_action(@, a)]
    ELSE [f EXCEPT !.acts = Append(@, a), !.w = apply_action(@, a)]

\* self.actions.<name>(**kwargs): the call acts on the world, or raises
call(f, a) ==
    IF ~f.ok THEN f
    ELSE IF Len(f.acts) + 1 = f.fail_at
    THEN [f EXCEPT !.ok = FALSE, !.err = "action", !.failed = <<a>>]
    ELSE [f EXCEPT !.acts = Append(@, a), !.w = apply_action(@, a)]

\* a failed assert
assertion_error(f) == IF ~f.ok THEN f ELSE [f EXCEPT !.ok = FALSE, !.err = "assert"]

\* Mutant: the issue is in the wrong project whenever the project mentioned
\* on the pull request is not the desired one.
in_wrong_project_by_mention(f) ==
    project_of(f.current.jira_mentioned_id) # f.desired.jira_project

\* fix, lines 327-333: the issue is in the wrong project, and was not moved
\* to the right one
in_wrong_project(f) ==
    LET mentioned_project == project_of(f.current.jira_mentioned_id)
        actual_project == project_of(f.current.jira_id)
    IN mentioned_project # f.desired.jira_project
       /\ ~(actual_project = f.desired.jira_project)

\* Mutant: the issue deleted is the one the comment mentions.
issue_to_delete_as_mentioned(f) == f.current.jira_mentioned_id

\* fix, line 335: the issue deleted is the one Jira returned
issue_to_delete(f) == f.current.jira_id

\* fix, lines 324-341: an issue in the wrong project is deleted
fix_wrong_project(f) ==
    IF ~f.ok \/ f.current.jira_id = NoId THEN f
    ELSE IF f.current.jira_mentioned_id = NoId THEN assertion_error(f)
    ELSE IF ~in_wrong_project(f) THEN f
            ELSE LET f1 == call(f, [name |-> "delete_jira_issue",
                                    jira_id |-> issue_to_delete(f)])
                 IN [f1 EXCEPT
                        !.make_issue = TRUE,
                        !.comment_kwargs = DictSet(@, "deleted_issue_key",
                                                   f.current.jira_mentioned_id),
                        !.current.jira_id = NoId,
                        !.current.jira_title = NoneStr,
                        !.current.jira_description = NoneStr,
                        !.current.jira_status = NoneStr]

\* Mutant: the new issue is transitioned whatever status it was created in.
new_issue_needs_transition_always(f) == TRUE

\* _make_jira_issue, line 419: the issue was not created in the initial
\* status the pull request should have
new_issue_needs_transition(f) ==
    f.desired.jira_initial_status # f.current.jira_status

\* _make_jira_issue
_make_jira_issue(f) ==
    IF ~f.ok THEN f
    ELSE IF f.desired.jira_project = NoneStr THEN assertion_error(f)
    ELSE LET \* extra_fields is desired.jira_extra_fields itself, not a copy
             extra_fields ==
                IF f.desired.jira_epic # NoEpic
                THEN DictSet(f.desired.jira_extra_fields, "Epic Link", f.desired.jira_epic.key)
                ELSE f.desired.jira_extra_fields
             f1 == [f EXCEPT !.desired.jira_extra_fields = extra_fields]
             create == [name |-> "create_ospr_issue",
                        project |-> f.desired.jira_project,
                        summary |-> f.desired.jira_title,
                        description |-> f.desired.jira_description,
                        labels |-> f.desired.jira_labels,
                        extra_fields |-> extra_fields]
             created == new_issue(f.w, create)
             f2 == call(f1, create)
             f3 == [f2 EXCEPT
                        !.current.jira_id = created.key,
                        !.current.jira_status = created.status,
                        !.current.jira_title = f.desired.jira_title,
                        !.current.jira_description = f.desired.jira_description,
                        !.current.jira_labels = f.desired.jira_labels,
                        !.current.jira_epic = f.desired.jira_epic,
                        !.current.jira_epic_key =
                            IF f.desired.jira_epic # NoEpic
                            THEN f.desired.jira_epic.key ELSE @]
             f4 == IF new_issue_needs_transition(f3)
                   THEN IF f3.desired.jira_initial_status = NoneStr
                        THEN assertion_error(f3)
                        ELSE [call(f3, [name |-> "transition_jira_issue",
                                        jira_id |-> f3.current.jira_id,
                                        jira_status |-> f3.desired.jira_initial_status])
                                EXCEPT !.current.jira_status = f3.desired.jira_initial_status]
                   ELSE f3
         IN [f4 EXCEPT !.happened = TRUE]

\* Mutant: an issue is made only to replace one that was deleted.
fix_make_issue_only_replacing(f) ==
    IF ~f.ok THEN f
    ELSE IF f.make_issue THEN _make_jira_issue(f)
    ELSE IF f.desired.jira_epic # NoEpic
            /\ f.current.jira_epic_key = f.desired.jira_epic.key
         THEN [f EXCEPT !.current.jira_epic = f.desired.jira_epic]
         ELSE f

\* fix, lines 343-357: make the issue, or take the desired epic as current
fix_make_issue(f) ==
    LET make_issue == f.make_issue
            \/ (f.desired.jira_project # NoneStr /\ f.current.jira_mentioned_id = NoId)
    IN IF ~f.ok THEN f
       ELSE IF make_issue THEN _make_jira_issue([f EXCEPT !.make_issue = TRUE])
       ELSE IF f.desired.jira_epic # NoEpic
               /\ f.current.jira_epic_key = f.desired.jira_epic.key
            THEN [f EXCEPT !.current.jira_epic = f.desired.jira_epic]
            ELSE f

\* Mutant: the draft flag is recorded only when the state blob has none yet.
fix_draftiness_first_only(f) ==
    IF "draft" \in DOMAIN f.last_seen_state THEN f
    ELSE [f EXCEPT !.last_seen_state = DictSet(@, "draft", is_draft_pull_request(f.pr))]

\* fix, lines 359-360
fix_draftiness(f) ==
    [f EXCEPT !.last_seen_state = DictSet(@, "draft", is_draft_pull_request(f.pr))]

\* Mutant: the epic link is written whenever an epic is desired.
needs_epic_link_whenever_desired(f) == f.desired.jira_epic # NoEpic

\* _fix_jira_information, lines 446-447: an epic is desired, and the current
\* epic is not that epic
needs_epic_link(f) ==
    /\ f.desired.jira_epic # NoEpic
    /\ (f.current.jira_epic = NoEpic \/ f.desired.jira_epic.key # f.current.jira_epic.key)

\* _fix_jira_information
_fix_jira_information(f) ==
    LET cur == f.current
        des == f.desired
        kw1 == IF des.jira_title # cur.jira_title
               THEN DictSet(EmptyDict, "summary", des.jira_title) ELSE EmptyDict
        kw2 == IF des.jira_description # cur.jira_description
               THEN DictSet(kw1, "description", des.jira_description) ELSE kw1
        ad_hoc_labels == cur.jira_labels \ JIRA_CATEGORY_LABELS
        desired_labels == des.jira_labels \cup ad_hoc_labels
        kw3 == IF desired_labels # cur.jira_labels
               THEN DictSet(kw2, "labels", des.jira_labels) ELSE kw2
        kw4 == IF needs_epic_link(f)
               THEN DictSet(kw3, "epic_link", des.jira_epic.key) ELSE kw3
        current_extra_fields ==
            DictRestrict(cur.jira_extra_fields, DOMAIN des.jira_extra_fields)
        update_kwargs ==
               IF des.jira_extra_fields # current_extra_fields
               THEN DictSet(kw4, "extra_fields", des.jira_extra_fields) ELSE kw4
    IN IF ~f.ok \/ DOMAIN update_kwargs = {} THEN f
       ELSE IF cur.jira_id = NoId THEN assertion_error(f)
       ELSE LET f1 == call(f, [name |-> "update_jira_issue",
                               jira_id |-> cur.jira_id,
                               update_kwargs |-> update_kwargs])
            IN [f1 EXCEPT
                   !.current.jira_title = des.jira_title,
                   !.current.jira_description = des.jira_description,
                   !.current.jira_labels = des.jira_labels,
                   !.current.jira_epic = des.jira_epic,
                   !.current.jira_extra_fields = des.jira_extra_fields,
                   !.happened = TRUE]

\* Mutant: the author's action resets the status whatever status a person
\* gave the issue.
author_unblocks_any_status(f) == f.current.author_acted

\* Mutant: an issue waiting on the author is reset whether or not the author
\* acted.
author_unblocks_unasked(f) == f.current.jira_status = "Waiting on Author"

\* fix, line 365: the author acted while we were waiting on the author
author_unblocks(f) ==
    f.current.author_acted /\ f.current.jira_status = "Waiting on Author"

\* fix, lines 362-375: the status and the information of the issue
fix_jira_issue(f) ==
    IF ~f.ok \/ f.current.jira_id = NoId THEN f
    ELSE LET f1 == IF author_unblocks(f)
                   THEN [f EXCEPT !.desired.jira_status = f.desired.jira_initial_status]
                   ELSE f
             f2 == IF f1.desired.jira_status # NoneStr
                      /\ f1.desired.jira_status # f1.current.jira_status
                   THEN [call(f1, [name |-> "transition_jira_issue",
                                   jira_id |-> f1.current.jira_id,
                                   jira_status |-> f1.desired.jira_status])
                            EXCEPT !.current.jira_status = f1.desired.jira_status,
                                   !.happened = TRUE]
                   ELSE f1
         IN _fix_jira_information(f2)

\* Mutant: the status labels the pull request has are kept as ad-hoc labels.
github_labels_keeping_status(f) ==
    LET desired_labels == f.desired.github_labels
            \cup (IF f.current.jira_status # NoneStr
                  THEN {lower(f.current.jira_status)} ELSE {})
        ad_hoc_labels == f.current.github_labels \ GITHUB_CATEGORY_LABELS
    IN desired_labels \cup ad_hoc_labels

\* Mutant: only the bot's labels are written, the ad-hoc ones dropped.
github_labels_without_ad_hoc(f) ==
    f.desired.github_labels
    \cup (IF f.current.jira_status # NoneStr THEN {lower(f.current.jira_status)} ELSE {})

\* _fix_github_labels, lines 477-481: the labels the pull request should have
github_labels_to_set(f) ==
    LET desired_labels == f.desired.github_labels
            \cup (IF f.current.jira_status # NoneStr
                  THEN {lower(f.current.jira_status)} ELSE {})
        ad_hoc_labels == (f.current.github_labels \ GITHUB_CATEGORY_LABELS)
                            \ GITHUB_STATUS_LABELS
    IN desired_labels \cup ad_hoc_labels

\* Mutant: relabelling the pull request does not count as a change.
_fix_github_labels_unflagged(f) ==
    LET desired_labels == github_labels_to_set(f)
    IN IF ~f.ok \/ desired_labels = f.current.github_labels THEN f
       ELSE call(f, [name |-> "update_labels_on_pull_request", labels |-> desired_labels])

\* _fix_github_labels
_fix_github_labels(f) ==
    LET desired_labels == github_labels_to_set(f)
    IN IF ~f.ok \/ desired_labels = f.current.github_labels THEN f
       ELSE [call(f, [name |-> "update_labels_on_pull_request", labels |-> desired_labels])
                EXCEPT !.happened = TRUE]

\* The first-comment templates of bot_comments.py: the text of the blocks
\* for the kinds in needed, for this pull request, issue key and kwargs.
first_comment_text(f, needed) ==
    LET blocks == needed \cap {"WELCOME", "CONTRACTOR", "CORE_COMMITTER", "BLENDED"}
        issue_blocks == blocks \cap IssueBlocks
        jira_id == IF f.current.jira_id # NoId THEN f.current.jira_id
                   ELSE f.current.jira_mentioned_id
    IN [blocks |-> blocks,
        jira |-> IF issue_blocks # {} THEN jira_id ELSE NoId,
        deleted |-> IF issue_blocks # {}
                    THEN DictGet(f.comment_kwargs, "deleted_issue_key", NoId) ELSE NoId,
        epic |-> IF "BLENDED" \in blocks THEN f.current.jira_epic.key ELSE NoId,
        closed |-> IF issue_blocks = {} \/ f.pr.state = "open" THEN "open"
                   ELSE IF f.pr.merged THEN "merged" ELSE "closed",
        draft |-> issue_blocks # {} /\ is_draft_pull_request(f.pr),
        needcla |-> issue_blocks # {} /\ ~pull_request_has_cla(f.pr),
        oktotest |-> "OK_TO_TEST" \in needed /\ blocks # {},
        champions |-> FALSE,
        data |-> format_data_for_comment(f.last_seen_state)]

\* Mutant: the fixer never sees a bot comment to edit.
has_bot_comments_never(f) == FALSE

\* _fix_bot_comment, line 495: the pull request has bot comments
has_bot_comments(f) == f.current.bot_comments # {}

\* Mutant: the end-of-WIP sentence is not taken as made by the templates.
made_in_first_comment_without_wip ==
    {"WELCOME", "CONTRACTOR", "CORE_COMMITTER", "BLENDED",
     "OK_TO_TEST", "NEED_CLA", "WELCOME_CLOSED"}

\* _fix_bot_comment, lines 507-539: the kinds the pass removes from
\* needed_comments, as rendered or as handled by a template
made_in_first_comment ==
    {"WELCOME", "CONTRACTOR", "CORE_COMMITTER", "BLENDED",
     "OK_TO_TEST", "NEED_CLA", "END_OF_WIP", "WELCOME_CLOSED"}

\* _fix_bot_comment
_fix_bot_comment(f) ==
    LET needed_comments == f.desired.bot_comments \cap BOT_COMMENTS_FIRST
        comment_body == first_comment_text(f, needed_comments)
        left == needed_comments \ made_in_first_comment
        f1 == IF comment_body # f.current.bot_comment0_text
              THEN [call(f, [name |-> IF has_bot_comments(f)
                                      THEN "edit_comment_on_pull_request"
                                      ELSE "add_comment_to_pull_request",
                             comment_body |-> comment_body])
                       EXCEPT !.happened = TRUE]
              ELSE f
    IN IF ~f.ok THEN f
       ELSE IF left # {} THEN assertion_error(f1) ELSE f1

\* github_committer_merge_ping_comment
merge_ping_text == [EmptyText EXCEPT !.blocks = {"CHAMPION_MERGE_PING"}, !.champions = TRUE]

\* Mutant: every desired comment that is no part of the first comment is
\* needed, whether or not the pull request has it.
needed_comments_whatever_present(f) == f.desired.bot_comments \ BOT_COMMENTS_FIRST

\* _add_bot_comments, line 562: the desired comments the pull request does
\* not have and that are no parts of the first comment
needed_comments(f) ==
    (f.desired.bot_comments \ f.current.bot_comments) \ BOT_COMMENTS_FIRST

\* _add_bot_comments
_add_bot_comments(f) ==
    LET f1 == IF "CHAMPION_MERGE_PING" \in needed_comments(f)
              THEN call(f, [name |-> "add_comment_to_pull_request",
                            comment_body |-> merge_ping_text])
              ELSE f
    IN IF ~f.ok THEN f
       ELSE IF needed_comments(f) \ {"CHAMPION_MERGE_PING"} # {}
            THEN assertion_error(f1) ELSE f1

\* Mutant: the first comment is fixed on closed pull requests too.
skip_comment_never(f) == FALSE

\* fix, lines 381-385: a closed pull request with bot comments keeps them
skip_comment(f) == f.pr.state = "closed" /\ f.current.bot_comments # {}

\* Mutant: the labels of the repository are synchronized only for an open
\* pull request.
synchronize_when_open(f) ==
    IF f.pr.state = "open"
    THEN call(f, [name |-> "synchronize_labels", repo |-> f.pr.repo])
    ELSE f

\* fix, line 318: the labels of the repository are synchronized
synchronize(f) == call(f, [name |-> "synchronize_labels", repo |-> f.pr.repo])

\* Mutant: the labels of the pull request are fixed before the issue is.
fix_labels_before_issue(f) ==
    LET f1 == synchronize(f)
        f2 == fix_wrong_project(f1)
        f3 == fix_make_issue(f2)
        f4 == fix_draftiness(f3)
        f5 == _fix_github_labels(f4)
        f6 == fix_jira_issue(f5)
        f7 == IF skip_comment(f6) THEN f6 ELSE _fix_bot_comment(f6)
    IN _add_bot_comments(f7)

\* fix, lines 313-316: initial_state does nothing in FixingActions, and is
\* one more call DryRunFixingActions records
initial_state(f) ==
    IF f.w.sink = "dry"
    THEN [f EXCEPT !.w = DryRunFixingActions(@, [name |-> "initial_state",
                                                 current |-> f.current,
                                                 desired |-> f.desired])]
    ELSE f

\* PrTrackingFixer.fix
fix(f) ==
    LET f0 == initial_state(f)
        f1 == synchronize(f0)
        f2 == fix_wrong_project(f1)
        f3 == fix_make_issue(f2)
        f4 == fix_draftiness(f3)
        f5 == fix_jira_issue(f4)
        f6 == _fix_github_labels(f5)
        f7 == IF skip_comment(f6) THEN f6 ELSE _fix_bot_comment(f6)
    IN _add_bot_comments(f7)

\* PrTrackingFixer.result
result(f) == <<f.current.jira_id, f.happened>>

----------------------------------------------------------------------------
(* The state machine. *)

NoRun == [ran |-> FALSE, ok |-> TRUE, err |-> NoneStr, tracked |-> FALSE,
          ticket |-> NoId, changed |-> FALSE, acts |-> <<>>,
          pr |-> [none |-> TRUE], current |-> PrCurrentInfo, desired |-> PrDesiredInfo]

Bodies == {NoneStr, "Blah blah"}
NoLines == [k \in {} |-> 0]
Lines(added) == [k \in {"additions", "deletions"} |-> IF k = "additions" THEN added ELSE 5]

\* Every event so far was delivered once, and no run was aborted.
NoDelivery == [kind |-> "none"]

\* update_commit_status_for_cla has no part in the runs of the fixer.
NoCla == [kind |-> "none"]

\* A pull request the bot has not seen yet, and a Jira without issues for it.
Init ==
    /\ pr \in {p \in [repo : {"edx/edx-platform"},
                      author : Authors, cla : BOOLEAN, state : {"open"}, merged : {FALSE},
                      draft : BOOLEAN, title : {"Fix", "[BD-34] Fix"},
                      body : {"Blah blah"}, lines : {NoLines, Lines(10)}, labels : {{}}] :
                  \* one pull request of each kind that is not tracked
                  p.author \in {"bot", "internal"}
                      => p.cla /\ ~p.draft /\ p.title = "Fix" /\ p.lines = Lines(10)}
    /\ epics = [id \in {"BD-34", "BD-35", "BD-36"} |->
                    CASE id = "BD-34" -> {Epic1}
                      [] id = "BD-35" -> {}
                      [] id = "BD-36" -> {Epic2, Epic3}]
    /\ issues = {}
    /\ comments = <<>>
    /\ nextKey = 1
    /\ repoLabels = "unsynced"
    /\ last = NoRun
    /\ hist = [quiet |-> FALSE, consec |-> FALSE, prev_ticket |-> NoId, unblocked |-> NoId]
    /\ budget = [runs |-> MaxRuns, events |-> MaxEvents]
    /\ delivery = NoDelivery
    /\ github = <<>>
    /\ inflight = <<>>
    /\ jira_ids = 9000
    /\ cla = NoCla

world == [issues |-> issues, comments |-> comments, labels |-> pr.labels,
          nextKey |-> nextKey, repoLabels |-> repoLabels,
          sink |-> "live", jira_ids |-> jira_ids, action_calls |-> <<>>]

\* The names of the actions of a run that change GitHub or Jira.
actions_named(acts, names) == SelectSeq(acts, LAMBDA a : a.name \in names)

\* The run found an issue waiting on the author and the author had acted.
unblock_case(l) ==
    /\ l.ran /\ l.tracked /\ l.ok
    /\ l.current.jira_id # NoId
    /\ l.current.author_acted
    /\ l.current.jira_status = "Waiting on Author"
    /\ Len(actions_named(l.acts, {"delete_jira_issue"})) = 0

\* What a run leaves: GitHub and Jira as the actions left them, and the record
\* of the run.
ran(l, w) ==
    /\ issues' = w.issues
    /\ comments' = w.comments
    /\ pr' = [pr EXCEPT !.labels = w.labels]
    /\ nextKey' = w.nextKey
    /\ repoLabels' = w.repoLabels
    /\ last' = l
    /\ hist' = [quiet |-> TRUE,
                consec |-> hist.quiet /\ last.ok,
                prev_ticket |-> last.ticket,
                unblocked |-> IF unblock_case(l) THEN l.ticket ELSE hist.unblocked]
    /\ budget' = [budget EXCEPT !.runs = @ - 1]
    /\ UNCHANGED <<epics, github, inflight, jira_ids, cla>>

\* tasks/github.py pull_request_changed: one run for the pull request as it
\* is now; it returns (None, False) for a pull request that is not tracked.
pull_request_changed ==
    /\ budget.runs > 0
    /\ UNCHANGED delivery
    /\ LET desired == desired_support_state(pr, epics)
       IN IF desired = NoDesired
          THEN ran([NoRun EXCEPT !.ran = TRUE, !.pr = pr], world)
          ELSE LET current == current_support_state(pr, comments, issues)
                   f == fix(PrTrackingFixer(pr, current, desired, world, 0))
               IN ran([ran |-> TRUE, ok |-> f.ok, err |-> f.err, tracked |-> TRUE,
                       ticket |-> IF f.ok THEN result(f)[1] ELSE NoId,
                       changed |-> IF f.ok THEN result(f)[2] ELSE FALSE,
                       acts |-> f.acts,
                       pr |-> pr, current |-> current, desired |-> desired], f.w)

\* An event outside the bot: it ends the quiet after a run, and the record of
\* that run is dropped. The model follows events only while a run is still to
\* come.
pr_event(p) ==
    /\ budget.runs > 0 /\ budget.events > 0
    /\ pr' = p
    /\ budget' = [budget EXCEPT !.events = @ - 1]
    /\ last' = NoRun
    /\ hist' = [hist EXCEPT !.quiet = FALSE, !.consec = FALSE, !.prev_ticket = NoId]
    /\ UNCHANGED <<epics, issues, comments, nextKey, repoLabels,
                    delivery, github, inflight, jira_ids, cla>>

jira_event(iss, nk) ==
    /\ budget.runs > 0 /\ budget.events > 0
    /\ issues' = iss
    /\ nextKey' = nk
    /\ budget' = [budget EXCEPT !.events = @ - 1]
    /\ last' = NoRun
    /\ hist' = [hist EXCEPT !.quiet = FALSE, !.consec = FALSE, !.prev_ticket = NoId]
    /\ UNCHANGED <<pr, epics, comments, repoLabels,
                    delivery, github, inflight, jira_ids, cla>>

\* The author edits the title (putting in or taking out the blended project).
EditTitle ==
    \E t \in (IF pr.title \in PlainTitles THEN Titles ELSE {"Fix"}) \ {pr.title} :
        pr_event([pr EXCEPT !.title = t])

\* The author edits the description.
EditBody == \E b \in Bodies \ {pr.body} : pr_event([pr EXCEPT !.body = b])

\* The author marks the pull request as a draft, or as ready for review.
ToggleDraft == pr_event([pr EXCEPT !.draft = ~@])

\* The pull request is closed or merged, or reopened.
CloseOrMerge ==
    /\ pr.state = "open"
    /\ \E m \in BOOLEAN : pr_event([pr EXCEPT !.state = "closed", !.merged = m])

Reopen ==
    /\ pr.state = "closed" /\ ~pr.merged
    /\ pr_event([pr EXCEPT !.state = "open"])

\* The author pushes commits: the line counts change.
Push ==
    /\ pr.lines = Lines(10)
    /\ pr_event([pr EXCEPT !.lines = Lines(20)])

\* The author signs the contributor agreement.
SignAgreement ==
    /\ ~pr.cla
    /\ pr_event([pr EXCEPT !.cla = TRUE])

\* Somebody adds a label to the pull request or takes one off.
AddPrLabel ==
    \E l \in (AdHocPrLabels \cup {"architecture review"}) \ pr.labels :
        pr_event([pr EXCEPT !.labels = @ \cup {l}])

RemovePrLabel ==
    \E l \in pr.labels \cap (GITHUB_STATUS_LABELS \cup AdHocPrLabels) :
        pr_event([pr EXCEPT !.labels = @ \ {l}])

\* Somebody moves the issue to another status.
JiraSetStatus ==
    \E i \in issues : \E s \in HumanStatuses \ {i.status} :
        jira_event((issues \ {i}) \cup {[i EXCEPT !.status = s]}, nextKey)

\* Somebody edits the labels of the issue.
JiraEditLabels ==
    \E i \in issues, ls \in SUBSET (AdHocJiraLabels \cup {"blended"}) :
        /\ ls # i.labels
        /\ jira_event((issues \ {i}) \cup {[i EXCEPT !.labels = ls]}, nextKey)

\* Somebody sets a custom field of the issue: a platform map area, or its epic.
JiraSetField ==
    \E i \in issues :
        \/ jira_event((issues \ {i}) \cup
                {[i EXCEPT !.extra = DictSet(@, "Platform Map Area (Levels 1 & 2)",
                                             "Course Level Insights")]}, nextKey)
        \/ /\ i.epic_link # Epic2.key
           /\ jira_event((issues \ {i}) \cup {[i EXCEPT !.epic_link = Epic2.key]}, nextKey)

\* Somebody moves the issue to another project: it gets a new key, and the
\* old keys still find it.
JiraMove ==
    \E i \in issues : \E p \in {"OSPR", "BLENDED", "ARCH"} \ {i.key.proj} :
        jira_event((issues \ {i}) \cup
            {[i EXCEPT !.key = [proj |-> p, num |-> nextKey], !.aka = @ \cup {i.key}]},
            nextKey + 1)

\* Somebody deletes the issue.
JiraDelete == \E i \in issues : jira_event(issues \ {i}, nextKey)

Next ==
    \/ pull_request_changed
    \/ EditTitle
    \/ EditBody
    \/ ToggleDraft
    \/ CloseOrMerge
    \/ Reopen
    \/ Push
    \/ SignAgreement
    \/ AddPrLabel
    \/ RemovePrLabel
    \/ JiraSetStatus
    \/ JiraEditLabels
    \/ JiraSetField
    \/ JiraMove
    \/ JiraDelete

Spec == Init /\ [][Next]_vars

\* ---------------------------------------------------------------------------
\* Properties of the reconciliation runs
\* ---------------------------------------------------------------------------

\* The names of the actions that change GitHub or Jira for the pull request.
MutatingActions ==
    {"create_ospr_issue", "delete_jira_issue", "transition_jira_issue",
     "update_jira_issue", "update_labels_on_pull_request",
     "edit_comment_on_pull_request", "add_comment_to_pull_request"}

\* The actions of the last run with one of the names.
emitted(names) == actions_named(last.acts, names)

\* The last step was a run, and the run completed.
completed == last.ran /\ last.ok

\* The issue with the key, as Jira has it after the run.
issue_after(key) == get_jira_issue(issues, key)

\* C1: a completed run that follows a completed run on the same pull request,
\* with no change outside the bot in between, returns changed = false and the
\* ticket id the first run returned, and emits no action that creates, deletes,
\* transitions or updates an issue, relabels the pull request, or edits or
\* adds a comment.
C1_Idempotent ==
    (completed /\ hist.consec)
        => /\ ~last.changed
           /\ last.ticket = hist.prev_ticket
           /\ Len(emitted(MutatingActions)) = 0

\* C2: after completed runs, at most one issue the bot created or adopted for
\* the pull request exists, and when the last run returned an issue id the
\* first bot comment mentions exactly that id, so the next run reads it back
\* as the mentioned id.
C2_SingleLinkedTicket ==
    completed
        => /\ Cardinality(issues) <= 1
           /\ last.ticket # NoId
                => /\ Len(comments) > 0
                   /\ comments[1].jira = last.ticket
                   /\ get_jira_issue_key(comments) = last.ticket

\* C3: when the desired state has a Jira project and the issue mentioned on
\* the pull request is gone from Jira (no current issue id, a mentioned id),
\* the run creates a new issue and returns its id.
C3_DeletedTicketReplaced ==
    (completed /\ last.tracked
     /\ last.desired.jira_project # NoneStr
     /\ last.current.jira_id = NoId
     /\ last.current.jira_mentioned_id # NoId)
        => /\ Len(emitted({"create_ospr_issue"})) = 1
           /\ last.ticket # NoId
           /\ issue_after(last.ticket) # NoIssue

\* The run found an issue whose mentioned project and actual project both
\* differ from the desired project.
project_changed ==
    /\ completed /\ last.tracked
    /\ last.current.jira_id # NoId
    /\ project_of(last.current.jira_mentioned_id) # last.desired.jira_project
    /\ project_of(last.current.jira_id) # last.desired.jira_project

relocated ==
    /\ completed /\ last.tracked
    /\ last.current.jira_id # NoId
    /\ project_of(last.current.jira_mentioned_id) # last.desired.jira_project
    /\ project_of(last.current.jira_id) = last.desired.jira_project

\* C5: a run that finds the issue mentioned in another project than the
\* desired one, but actually in the desired project, deletes no issue and
\* creates none, returns the actual id of the issue, and writes no comment
\* that tells of a deleted issue.
C5_TicketRelocation ==
    relocated
        => /\ Len(emitted({"delete_jira_issue", "create_ospr_issue"})) = 0
           /\ last.ticket = last.current.jira_id
           /\ \A i \in 1..Len(last.acts) :
                last.acts[i].name \in {"edit_comment_on_pull_request",
                                       "add_comment_to_pull_request"}
                    => last.acts[i].comment_body.deleted = NoId

\* C5 happens: a run adopted a moved issue and rewrote the first comment.
C5_Witness ==
    /\ relocated
    /\ last.ticket # last.current.jira_mentioned_id
    /\ Len(emitted({"edit_comment_on_pull_request"})) > 0

\* The labels on the pull request, as the run found them, that are outside
\* the bot's category and status labels.
ad_hoc_pr_labels ==
    last.pr.labels \ (GITHUB_CATEGORY_LABELS \cup GITHUB_STATUS_LABELS)

\* C6: every label set a run writes to the pull request contains every label
\* the pull request carried outside the bot's category and status label
\* sets, and those labels are still on the pull request after the run.
C6_PrLabelsPreserved ==
    (last.ran /\ last.tracked)
        => /\ \A i \in 1..Len(last.acts) :
                last.acts[i].name = "update_labels_on_pull_request"
                    => ad_hoc_pr_labels \subseteq last.acts[i].labels
           /\ ad_hoc_pr_labels \subseteq pr.labels

\* C6 happens: a run relabelled a pull request that carried an ad-hoc label.
C6_Witness ==
    /\ last.ran /\ last.tracked
    /\ ad_hoc_pr_labels # {}
    /\ Len(emitted({"update_labels_on_pull_request"})) > 0

\* C7: every label update a run sends for the issue it found carries the
\* desired Jira labels united with the labels the issue had outside the Jira
\* category labels, and those ad-hoc labels are still on the issue after the
\* run.
C7_JiraLabelsPreserved ==
    (completed /\ last.tracked /\ last.current.jira_id # NoId)
        => LET ad_hoc_labels == last.current.jira_labels \ JIRA_CATEGORY_LABELS
           IN /\ \A i \in 1..Len(last.acts) :
                    (/\ last.acts[i].name = "update_jira_issue"
                     /\ last.acts[i].jira_id = last.current.jira_id
                     /\ "labels" \in DOMAIN last.acts[i].update_kwargs)
                        => last.acts[i].update_kwargs["labels"]
                            = last.desired.jira_labels \cup ad_hoc_labels
              /\ issue_after(last.current.jira_id) # NoIssue
                    => ad_hoc_labels \subseteq issue_after(last.current.jira_id).labels

\* The run found an issue, a first comment that remembers a draft, and a
\* pull request that is no longer a draft.
draft_flip ==
    /\ completed /\ last.tracked
    /\ last.current.jira_id # NoId
    /\ DictGet(last.current.last_seen_state, "draft", FALSE)
    /\ ~last.pr.draft

\* The transitions the run emitted for the issue it found.
transitions_of_found_issue ==
    SelectSeq(last.acts, LAMBDA a : /\ a.name = "transition_jira_issue"
                                    /\ a.jira_id = last.current.jira_id)

\* C8, as stated: when the first comment remembers a draft, the pull request
\* is no longer one and the issue waits on the author, the run leaves the
\* issue in the initial status of the pull request's category; when a person
\* had moved the issue out of "Waiting on Author" the run emits no
\* transition; and a later run on the pull request made a draft again emits
\* no transition.
C8_DraftUnblock ==
    /\ (draft_flip /\ last.current.jira_status = "Waiting on Author")
        => /\ issue_after(last.ticket) # NoIssue
           /\ issue_after(last.ticket).status = last.desired.jira_initial_status
    /\ (draft_flip /\ last.current.jira_status # "Waiting on Author")
        => Len(emitted({"transition_jira_issue"})) = 0
    /\ (completed /\ last.tracked /\ last.pr.draft /\ hist.unblocked # NoId)
        => Len(emitted({"transition_jira_issue"})) = 0

\* C8, for open pull requests: the unblocked issue is left in the initial
\* status of the category; an issue a person had moved out of "Waiting on
\* Author" gets no transition; and after an unblocking, a run on the pull
\* request made a draft again emits no transition for the issue it finds.
C8_DraftUnblockOpen ==
    last.ran /\ last.pr.state = "open"
        => /\ (draft_flip /\ last.current.jira_status = "Waiting on Author")
                => /\ issue_after(last.ticket) # NoIssue
                   /\ issue_after(last.ticket).status = last.desired.jira_initial_status
           /\ (draft_flip /\ last.current.jira_status # "Waiting on Author")
                => Len(transitions_of_found_issue) = 0
           /\ (completed /\ last.tracked /\ last.pr.draft /\ hist.unblocked # NoId)
                => Len(transitions_of_found_issue) = 0

\* C8 happens: an issue was unblocked, the pull request was made a draft
\* again, and a run found the issue.
C8_Witness ==
    /\ completed /\ last.tracked
    /\ last.pr.state = "open" /\ last.pr.draft
    /\ hist.unblocked # NoId
    /\ last.current.jira_id = hist.unblocked

\* C9: after a completed run on a merged pull request with an issue the
\* status of the issue is "Merged", and on a pull request closed without
\* merging it is "Rejected", whatever the status was and whether or not the
\* author had acted.
C9_ClosedStatusForced ==
    (completed /\ last.tracked /\ last.pr.state = "closed" /\ last.ticket # NoId)
        => /\ issue_after(last.ticket) # NoIssue
           /\ issue_after(last.ticket).status
                = (IF last.pr.merged THEN "Merged" ELSE "Rejected")

\* The run found an issue on an open pull request, and no change from draft
\* to non-draft since the first comment was written.
open_without_flip ==
    /\ completed /\ last.tracked
    /\ last.pr.state = "open"
    /\ last.current.jira_id # NoId
    /\ ~last.current.author_acted

\* C10, as stated: on an open pull request with an issue and no change from
\* draft to non-draft, the run emits no transition, whatever else it
\* updates, and the issue keeps its status.
C10_HumanStatusKept ==
    open_without_flip
        => /\ Len(emitted({"transition_jira_issue"})) = 0
           /\ issue_after(last.current.jira_id) # NoIssue
                => issue_after(last.current.jira_id).status = last.current.jira_status

\* C10, for the issue the run found: the run emits no transition for that
\* issue, and while the issue exists it keeps its status.
C10_HumanStatusKeptOnIssue ==
    open_without_flip
        => /\ Len(transitions_of_found_issue) = 0
           /\ issue_after(last.current.jira_id) # NoIssue
                => issue_after(last.current.jira_id).status = last.current.jira_status

\* C10 happens: a person gave the issue a status, and a run updated the
\* issue's fields.
C10_Witness ==
    /\ open_without_flip
    /\ last.current.jira_status = "Architecture Review"
    /\ Len(emitted({"update_jira_issue"})) > 0

\* The comment is a first (primary) bot comment: it holds one of the blocks
\* the first-comment templates render.
is_primary(text) ==
    text.blocks \cap {"WELCOME", "CONTRACTOR", "CORE_COMMITTER", "BLENDED"} # {}

\* The actions of the last run that add or edit a primary comment.
primary_comment_actions ==
    SelectSeq(last.acts, LAMBDA a :
        \/ a.name = "edit_comment_on_pull_request"
        \/ a.name = "add_comment_to_pull_request" /\ is_primary(a.comment_body))

\* The run was on a closed pull request that already had a bot comment.
closed_with_comments ==
    /\ last.ran /\ last.tracked
    /\ last.pr.state = "closed"
    /\ last.current.bot_comments # {}

\* C11: a run on a closed pull request that already has a bot comment emits
\* no edit of the first comment and adds no first comment, and the first
\* comment is after the run what it was before, even when the text the
\* templates would render differs from it.
C11_ClosedNotReannotated ==
    closed_with_comments
        => /\ Len(primary_comment_actions) = 0
           /\ comments[1] = last.current.bot_comment0_text

\* C11 happens: the pull request was closed after the first comment was
\* written for it open, so the text the templates render now would differ.
C11_Witness ==
    /\ closed_with_comments /\ last.ok
    /\ is_primary(comments[1])
    /\ comments[1].blocks \cap IssueBlocks # {}
    /\ comments[1].closed = "open"

\* C12: a run adds a primary comment only when it found no bot comment on
\* the pull request and edits the first comment only when it found one, and
\* the pull request never carries more than one primary comment.
C12_OnePrimaryComment ==
    /\ Cardinality({i \in 1..Len(comments) : is_primary(comments[i])}) <= 1
    /\ (last.ran /\ last.tracked)
        => \A i \in 1..Len(last.acts) :
            /\ (last.acts[i].name = "add_comment_to_pull_request"
                /\ is_primary(last.acts[i].comment_body))
                    => last.current.bot_comments = {}
            /\ last.acts[i].name = "edit_comment_on_pull_request"
                    => last.current.bot_comments # {}

\* C12 happens: a run edited the one primary comment of a pull request in
\* place after its project changed.
C12_Witness ==
    /\ completed /\ last.tracked
    /\ last.current.bot_comments # {}
    /\ Len(emitted({"edit_comment_on_pull_request"})) = 1
    /\ Len(emitted({"delete_jira_issue"})) = 1
    /\ Cardinality({i \in 1..Len(comments) : is_primary(comments[i])}) = 1

\* The run was on a tracked pull request that is not a contractor's.
tracked_with_issue_policy ==
    /\ last.ran /\ last.tracked
    /\ ~is_contractor_pull_request(last.pr)

\* C13: for a tracked pull request, not a contractor's, without a signed
\* agreement the desired initial status is "Community Manager Review", the
\* wanted comments hold NEED_CLA and not OK_TO_TEST, and the desired labels
\* hold NEED-CLA, draft or committer's or not; with a signed agreement the
\* wanted comments hold OK_TO_TEST and not NEED_CLA.
C13_ClaPrecedence ==
    tracked_with_issue_policy
        => /\ last.desired = desired_support_state(last.pr, epics)
           /\ IF ~pull_request_has_cla(last.pr)
              THEN /\ last.desired.jira_initial_status = "Community Manager Review"
                   /\ "NEED_CLA" \in last.desired.bot_comments
                   /\ "OK_TO_TEST" \notin last.desired.bot_comments
                   /\ "NEED-CLA" \in last.desired.github_labels
              ELSE /\ "OK_TO_TEST" \in last.desired.bot_comments
                   /\ "NEED_CLA" \notin last.desired.bot_comments

\* C13 happens: the desired state was computed for a committer's draft
\* without a signed agreement.
C13_Witness ==
    /\ tracked_with_issue_policy
    /\ ~pull_request_has_cla(last.pr)
    /\ is_draft_pull_request(last.pr)
    /\ is_committer_pull_request(last.pr)
    /\ get_blended_project_id(last.pr) = NoneStr

\* The pull request of the run is a committer's and not a blended one.
non_blended_committer ==
    /\ is_committer_pull_request(last.pr)
    /\ get_blended_project_id(last.pr) = NoneStr

\* C14: with a signed agreement the desired initial status is "Waiting on
\* Author" for a draft and for a committer's pull request that is not
\* blended, and "Needs Triage" otherwise; the committer's pull request that
\* is not blended wants the committer comment, not the welcome one, and has
\* the committer labels.
C14_InitialStatusPolicy ==
    (tracked_with_issue_policy /\ pull_request_has_cla(last.pr))
        => /\ last.desired.jira_initial_status =
                (IF is_draft_pull_request(last.pr) \/ non_blended_committer
                 THEN "Waiting on Author" ELSE "Needs Triage")
           /\ non_blended_committer
                => /\ "CORE_COMMITTER" \in last.desired.bot_comments
                   /\ "WELCOME" \notin last.desired.bot_comments
                   /\ "core committer" \in last.desired.github_labels
                   /\ "core-committer" \in last.desired.jira_labels

\* C14 happens: the desired state was computed for a draft with a signed
\* agreement that is not a committer's.
C14_Witness ==
    /\ tracked_with_issue_policy /\ pull_request_has_cla(last.pr)
    /\ is_draft_pull_request(last.pr)
    /\ ~is_committer_pull_request(last.pr)
    /\ last.desired.jira_initial_status = "Waiting on Author"

\* C15: a run on the pull request of a bot or an internal one has no
\* desired state, returns no ticket id and changed = false, and calls no
\* action: no issue and no comment is made.
C15_Untracked ==
    (last.ran /\ (is_bot_pull_request(last.pr) \/ is_internal_pull_request(last.pr)))
        => /\ desired_support_state(last.pr, epics) = NoDesired
           /\ ~last.tracked
           /\ last.ticket = NoId /\ ~last.changed
           /\ last.acts = <<>>
           /\ issues = {} /\ comments = <<>>

\* C15 happens: a run was made on an internal pull request.
C15_Witness ==
    /\ last.ran /\ is_internal_pull_request(last.pr) /\ ~last.tracked

\* The parts of C16 that do not speak of the runs after the first: only the
\* CONTRACTOR comment and no project are desired, no issue is created, no
\* ticket id is returned, and one bot comment exists after the run.
contractor_without_issue ==
    /\ last.desired.bot_comments = {"CONTRACTOR"}
    /\ last.desired.jira_project = NoneStr
    /\ Len(emitted({"create_ospr_issue"})) = 0
    /\ issues = {}
    /\ last.ticket = NoId
    /\ Len(comments) = 1

\* The run was on a contractor's pull request with no issue mentioned.
contractor_run ==
    /\ completed /\ last.tracked
    /\ is_contractor_pull_request(last.pr)
    /\ last.current.jira_mentioned_id = NoId

\* C16, as stated: every run on a contractor's pull request wants only the
\* CONTRACTOR comment, creates no issue, returns no ticket id and leaves one
\* bot comment, and every run after the first returns changed = false.
C16_Contractor ==
    contractor_run
        => /\ contractor_without_issue
           /\ last.current.bot_comments # {} => ~last.changed

\* C16, for runs with no change in between: every run on a contractor's
\* pull request wants only the CONTRACTOR comment, creates no issue, returns
\* no ticket id and leaves one bot comment, and a run that follows a
\* completed run with nothing changed in between returns changed = false.
C16_ContractorQuiet ==
    contractor_run
        => /\ contractor_without_issue
           /\ hist.consec => ~last.changed

\* C16 happens: a second run followed the first on a contractor's pull
\* request with nothing changed in between.
C16_Witness ==
    /\ contractor_run /\ hist.consec
    /\ last.current.bot_comments = {"CONTRACTOR"}

\* The update actions of the last run that carry extra fields.
extra_fields_updates ==
    SelectSeq(last.acts, LAMBDA a : /\ a.name = "update_jira_issue"
                                    /\ "extra_fields" \in DOMAIN a.update_kwargs)

\* The extra fields on the issue when the run came to reconcile its fields:
\* those the run created it with, or those the run read from Jira.
extra_fields_on_issue ==
    IF Len(emitted({"create_ospr_issue"})) > 0
    THEN emitted({"create_ospr_issue"})[1].extra_fields
    ELSE last.current.jira_extra_fields

\* C17: when every extra field of the desired state has an equal value on
\* the issue, the run emits no update of extra fields, whatever other extra
\* fields the issue has; an update of extra fields carries only fields of
\* the desired state; and the extra fields of the issue that are not
\* desired are after the run what they were before.
C17_ExtraFieldsUntouched ==
    (completed /\ last.tracked /\ last.ticket # NoId)
        => LET des == last.desired.jira_extra_fields
           IN /\ (\A k \in DOMAIN des :
                    /\ k \in DOMAIN extra_fields_on_issue
                    /\ extra_fields_on_issue[k] = des[k])
                    => Len(extra_fields_updates) = 0
              /\ \A i \in 1..Len(extra_fields_updates) :
                    DOMAIN extra_fields_updates[i].update_kwargs["extra_fields"]
                        \subseteq DOMAIN des
              /\ Len(emitted({"create_ospr_issue"})) = 0
                    => \A k \in DOMAIN last.current.jira_extra_fields \ DOMAIN des :
                        /\ k \in DOMAIN issue_after(last.ticket).extra
                        /\ issue_after(last.ticket).extra[k]
                            = last.current.jira_extra_fields[k]

\* The run completed and returned an issue that exists.
completed_with_issue ==
    /\ completed /\ last.tracked
    /\ last.ticket # NoId
    /\ issue_after(last.ticket) # NoIssue

\* C18: after a completed run on a pull request with an issue, the status
\* labels on the pull request are exactly the lowercased status the issue
\* has at the end of the run.
C18_StatusLabelMirrors ==
    completed_with_issue
        => pr.labels \cap GITHUB_STATUS_LABELS = {lower(issue_after(last.ticket).status)}

\* C18 happens: a run transitioned the issue and took a stale status label
\* off the pull request.
C18_Witness ==
    /\ completed_with_issue
    /\ Len(emitted({"transition_jira_issue"})) > 0
    /\ (last.pr.labels \cap GITHUB_STATUS_LABELS) \ pr.labels # {}

\* C19: every run of fix calls synchronize_labels for the repository of the
\* pull request exactly once, before every other action of the run,
\* whether or not the run changes anything else.
C19_LabelSyncFirst ==
    (last.ran /\ last.tracked)
        => /\ Len(last.acts) >= 1
           /\ last.acts[1].name = "synchronize_labels"
           /\ last.acts[1].repo = last.pr.repo
           /\ Len(emitted({"synchronize_labels"})) = 1
           /\ repoLabels = "synced"

\* C19 happens: a run on a closed pull request synchronized the labels and
\* did nothing else.
C19_Witness ==
    /\ completed /\ last.tracked
    /\ last.pr.state = "closed"
    /\ Len(last.acts) = 1
    /\ last.acts[1].name = "synchronize_labels"

\* The actions of the last run that C20 counts as changes.
counted_changes ==
    SelectSeq(last.acts, LAMBDA a :
        \/ a.name \in {"delete_jira_issue", "create_ospr_issue", "transition_jira_issue",
                       "update_jira_issue", "update_labels_on_pull_request",
                       "edit_comment_on_pull_request"}
        \/ a.name = "add_comment_to_pull_request" /\ is_primary(a.comment_body))

\* C20: a completed run returns changed = true exactly when it emitted a
\* delete, create, transition or update of an issue, a relabelling of the
\* pull request, or an add or edit of the primary comment; synchronizing the
\* labels alone does not set it.
C20_ChangedAccurate ==
    (completed /\ last.tracked)
        => (last.changed <=> Len(counted_changes) > 0)

\* C20 happens: a run only relabelled the pull request and returned
\* changed = true.
C20_Witness ==
    /\ completed /\ last.tracked /\ last.changed
    /\ Len(counted_changes) = 1
    /\ Len(emitted({"update_labels_on_pull_request"})) = 1

\* The run created an issue for an open pull request.
created_for_open ==
    /\ completed /\ last.tracked
    /\ last.pr.state = "open"
    /\ Len(emitted({"create_ospr_issue"})) > 0

\* The action after action i of the last run moves the issue the run
\* returned to the status.
followed_by_transition(i, status) ==
    /\ i < Len(last.acts)
    /\ last.acts[i + 1].name = "transition_jira_issue"
    /\ last.acts[i + 1].jira_id = last.ticket
    /\ last.acts[i + 1].jira_status = status

\* C26: a run that creates an issue for an open pull request calls
\* create_ospr_issue once, with the desired project, title, description,
\* labels and extra fields; the next action is the transition of the new
\* issue to the desired initial status exactly when that status is not
\* "Needs Triage"; and when the run ends the issue it returned exists in the
\* desired project with the desired initial status.
C26_CreateLandsInInitialStatus ==
    created_for_open
        => /\ Len(emitted({"create_ospr_issue"})) = 1
           /\ \A i \in 1..Len(last.acts) :
                last.acts[i].name = "create_ospr_issue"
                    => /\ last.acts[i].project = last.desired.jira_project
                       /\ last.acts[i].summary = last.desired.jira_title
                       /\ last.acts[i].description = last.desired.jira_description
                       /\ last.acts[i].labels = last.desired.jira_labels
                       /\ DictRestrict(last.acts[i].extra_fields,
                                       DOMAIN last.acts[i].extra_fields \ {"Epic Link"})
                            = last.desired.jira_extra_fields
                       /\ (last.desired.jira_initial_status # "Needs Triage")
                            <=> followed_by_transition(i, last.desired.jira_initial_status)
                       /\ ~(\E s \in Statuses \ {last.desired.jira_initial_status} :
                                followed_by_transition(i, s))
           /\ project_of(last.ticket) = last.desired.jira_project
           /\ issue_after(last.ticket) # NoIssue
           /\ issue_after(last.ticket).status = last.desired.jira_initial_status

\* The run created an issue whose initial status is not "Needs Triage", and
\* moved the issue to it.
C26_Witness ==
    /\ created_for_open
    /\ last.desired.jira_initial_status # "Needs Triage"
    /\ Len(emitted({"transition_jira_issue"})) = 1
    /\ issue_after(last.ticket).status = last.desired.jira_initial_status

\* The step of fix that emits action i of the last run: 1 the label
\* synchronization, 2 the delete of an issue in the wrong project, 3 the
\* create, 4 the transition of the created issue to its initial status,
\* 5 the transition to the desired status, 6 the update of the fields,
\* 7 the labels of the pull request, 8 the first bot comment, 9 the other
\* bot comments.
step_of(i) ==
    LET a == last.acts[i]
    IN CASE a.name = "synchronize_labels" -> 1
         [] a.name = "delete_jira_issue" -> 2
         [] a.name = "create_ospr_issue" -> 3
         [] a.name = "transition_jira_issue" ->
                IF i > 1 /\ last.acts[i - 1].name = "create_ospr_issue"
                   /\ a.jira_status = last.desired.jira_initial_status
                THEN 4 ELSE 5
         [] a.name = "update_jira_issue" -> 6
         [] a.name = "update_labels_on_pull_request" -> 7
         [] a.name = "edit_comment_on_pull_request" -> 8
         [] a.name = "add_comment_to_pull_request" ->
                IF a.comment_body = merge_ping_text THEN 9 ELSE 8

\* C27: the actions of a run come in the order of the steps of fix, each step
\* emitting at most one action: label synchronization, delete, create,
\* initial transition of the created issue, transition to the desired status,
\* update of the fields, labels of the pull request, first comment, other
\* comments. A completed run that deletes an issue creates one afterwards;
\* and when it returns an issue, the labels it writes hold the status the
\* issue has when the run ends, and the first comment it writes mentions the
\* issue it returns.
C27_ActionOrder ==
    (last.ran /\ last.tracked)
        => /\ \A i, j \in 1..Len(last.acts) : i < j => step_of(i) < step_of(j)
           /\ completed =>
                /\ \A i \in 1..Len(last.acts) :
                        last.acts[i].name = "delete_jira_issue"
                            => \E j \in (i + 1)..Len(last.acts) :
                                    last.acts[j].name = "create_ospr_issue"
                /\ last.ticket # NoId =>
                    \A i \in 1..Len(last.acts) :
                        /\ last.acts[i].name = "update_labels_on_pull_request"
                            => lower(issue_after(last.ticket).status)
                                    \in last.acts[i].labels
                        /\ (step_of(i) = 8 /\ last.acts[i].comment_body.jira # NoId)
                            => last.acts[i].comment_body.jira = last.ticket

\* A run on a pull request first seen closed: it created the issue, moved it
\* to its initial status, moved it to the status of a closed pull request,
\* wrote the labels and then the first comment.
C27_Witness ==
    /\ completed /\ last.tracked
    /\ \E i \in 1..Len(last.acts) :
            /\ i + 4 <= Len(last.acts)
            /\ step_of(i) = 3
            /\ step_of(i + 1) = 4
            /\ step_of(i + 2) = 5
            /\ step_of(i + 3) \in {6, 7}
            /\ step_of(Len(last.acts)) = 8

\* The keys of the issues the last run created: Jira gave the last number.
created_keys ==
    {[proj |-> last.acts[i].project, num |-> nextKey - 1] :
        i \in {k \in 1..Len(last.acts) : last.acts[k].name = "create_ospr_issue"}}

\* The places of the actions of the last run that act on an issue by its id.
issue_actions(names) == {i \in 1..Len(last.acts) : last.acts[i].name \in names}

\* C28: every delete of a run targets the id the issue actually has in Jira;
\* every transition and update targets that id or the id of the issue the
\* run created; none targets a mentioned id that is not the actual id; and
\* no transition or update targets an issue the run deleted.
C28_ActualTicketTargeted ==
    (last.ran /\ last.tracked)
        => /\ \A i \in issue_actions({"delete_jira_issue"}) :
                /\ last.current.jira_id # NoId
                /\ last.acts[i].jira_id = last.current.jira_id
           /\ \A i \in issue_actions({"transition_jira_issue", "update_jira_issue"}) :
                /\ last.acts[i].jira_id \in
                        ({last.current.jira_id} \ {NoId}) \cup created_keys
                /\ \A d \in issue_actions({"delete_jira_issue"}) :
                        last.acts[i].jira_id # last.acts[d].jira_id
           /\ \A i \in issue_actions({"delete_jira_issue", "transition_jira_issue",
                                       "update_jira_issue"}) :
                last.current.jira_mentioned_id # last.current.jira_id
                    => last.acts[i].jira_id # last.current.jira_mentioned_id

\* The run found the issue under another id than the mentioned one, deleted
\* it, and moved or updated the issue it created.
C28_Witness ==
    /\ completed /\ last.tracked
    /\ last.current.jira_id # NoId
    /\ last.current.jira_mentioned_id # last.current.jira_id
    /\ issue_actions({"delete_jira_issue"}) # {}
    /\ issue_actions({"transition_jira_issue", "update_jira_issue"}) # {}

\* The fixer of the last run as the delete step of fix left it.
after_delete_step ==
    fix_wrong_project(synchronize(initial_state(
        PrTrackingFixer(last.pr, last.current, last.desired, world, 0))))

\* C29: after the delete step of a run that deletes an issue in the wrong
\* project, the fixer's current state holds no id, title, description,
\* status, labels, epic key, epic or extra fields of the deleted issue.
C29_DeleteClearsCurrent ==
    (last.ran /\ last.tracked /\ issue_actions({"delete_jira_issue"}) # {})
        => /\ after_delete_step.current.jira_id = NoId
           /\ after_delete_step.current.jira_title = NoneStr
           /\ after_delete_step.current.jira_description = NoneStr
           /\ after_delete_step.current.jira_status = NoneStr
           /\ after_delete_step.current.jira_labels = {}
           /\ after_delete_step.current.jira_epic_key = NoId
           /\ after_delete_step.current.jira_epic = NoEpic
           /\ after_delete_step.current.jira_extra_fields = EmptyDict

\* ---------------------------------------------------------------------------
\* SpecDelivery: runs that a failing action aborts, and events delivered twice
\* ---------------------------------------------------------------------------

\* runs explored in one behaviour of SpecDelivery, the aborted or repeated
\* one among them
MaxDeliveryRuns == 3
\* events outside the bot explored in one behaviour of SpecDelivery
MaxDeliveryEvents == 1
\* the calls of actions in one run among which the failing one is chosen
MaxCalls == 8

InitDelivery ==
    /\ pr \in {p \in [repo : {"edx/edx-platform"},
                      author : Authors \ {"bot", "internal"}, cla : BOOLEAN,
                      state : {"open", "closed"}, merged : {FALSE},
                      draft : BOOLEAN, title : {"Fix", "[BD-34] Fix"},
                      body : {"Blah blah"}, lines : {NoLines, Lines(10)}, labels : {{}}] :
                  \* one pull request without line counts, and one closed
                  /\ p.lines = NoLines =>
                        p.author = "external" /\ p.cla /\ ~p.draft /\ p.title = "Fix"
                  /\ p.state = "closed" => p.lines = NoLines}
    /\ epics = [id \in {"BD-34", "BD-35", "BD-36"} |->
                    CASE id = "BD-34" -> {Epic1}
                      [] id = "BD-35" -> {}
                      [] id = "BD-36" -> {Epic2, Epic3}]
    /\ issues = {}
    /\ comments = <<>>
    /\ nextKey = 1
    /\ repoLabels = "unsynced"
    /\ last = NoRun
    /\ hist = [quiet |-> FALSE, consec |-> FALSE, prev_ticket |-> NoId, unblocked |-> NoId]
    /\ budget = [runs |-> MaxDeliveryRuns, events |-> MaxDeliveryEvents]
    /\ delivery = NoDelivery
    /\ github = <<>>
    /\ inflight = <<>>
    /\ jira_ids = 9000
    /\ cla = NoCla

\* The record of a run of the fixer.
run_record(p, current, desired, f) ==
    [ran |-> TRUE, ok |-> f.ok, err |-> f.err, tracked |-> TRUE,
     ticket |-> IF f.ok THEN result(f)[1] ELSE NoId,
     changed |-> IF f.ok THEN result(f)[2] ELSE FALSE,
     acts |-> f.acts,
     pr |-> p, current |-> current, desired |-> desired]

\* A run in which one call of an action raises: call number k of those the
\* run would make. The exception leaves fix and pull_request_changed.
aborted_run ==
    /\ budget.runs > 0
    /\ delivery = NoDelivery
    /\ desired_support_state(pr, epics) # NoDesired
    /\ \E k \in 1..MaxCalls :
        \E f \in {fix(PrTrackingFixer(pr, current_support_state(pr, comments, issues),
                                      desired_support_state(pr, epics), world, k))} :
           /\ f.failed # <<>>
           /\ ran(run_record(pr, current_support_state(pr, comments, issues),
                             desired_support_state(pr, epics), f), f.w)
           /\ delivery' = [kind |-> "aborted", k |-> k, before |-> world,
                           failed |-> f.failed,
                           runs |-> budget.runs - 1, events |-> budget.events]

\* The event of the last completed run is delivered again: a run on the pull
\* request as the payload of that event holds it, labels included.
redelivered ==
    /\ budget.runs > 0
    /\ delivery = NoDelivery
    /\ last.ran /\ last.ok /\ last.tracked
    /\ \E f \in {fix(PrTrackingFixer(last.pr,
                                      current_support_state(last.pr, comments, issues),
                                      desired_support_state(last.pr, epics), world, 0))} :
          /\ ran(run_record(last.pr, current_support_state(last.pr, comments, issues),
                            desired_support_state(last.pr, epics), f), f.w)
          /\ delivery' = [kind |-> "redelivered",
                          runs |-> budget.runs - 1, events |-> budget.events]

\* The runs, and between them the events that change what a run has to do
\* to the issue: a new project, a new status, a new key.
NextDelivery ==
    \/ pull_request_changed
    \/ aborted_run
    \/ redelivered
    \/ EditTitle
    \/ ToggleDraft
    \/ CloseOrMerge
    \/ Reopen
    \/ AddPrLabel
    \/ JiraSetStatus
    \/ JiraMove

SpecDelivery == InitDelivery /\ [][NextDelivery]_vars

\* What the sink leaves of w after the actions, in order.
RECURSIVE apply_all(_, _)
apply_all(w, acts) ==
    IF acts = <<>> THEN w ELSE apply_all(apply_action(w, Head(acts)), Tail(acts))

\* The run that was aborted, had no call raised: the fixer after fix on the
\* pull request, GitHub and Jira as they were before the aborted run.
uninterrupted ==
    LET p == [pr EXCEPT !.labels = delivery.before.labels]
    IN fix(PrTrackingFixer(p,
            current_support_state(p, delivery.before.comments, delivery.before.issues),
            desired_support_state(p, epics), delivery.before, 0))

\* The last step was the run that a failing call aborted.
just_aborted ==
    /\ delivery.kind = "aborted"
    /\ budget.runs = delivery.runs /\ budget.events = delivery.events

\* The last step was the first run after the aborted run, with no event in
\* between, and it completed.
retried ==
    /\ delivery.kind = "aborted"
    /\ budget.runs = delivery.runs - 1 /\ budget.events = delivery.events
    /\ completed /\ last.tracked

\* C21: the first run after an aborted run, uninterrupted and with no event
\* in between, leaves as many issues as the run would have left had it not
\* been aborted, a first comment that mentions the issue it returns, and the
\* labels and the status of the issue that run would have left.
C21_RecoveryAfterAbort ==
    (retried /\ uninterrupted.ok)
        => /\ Cardinality(issues) = Cardinality(uninterrupted.w.issues)
           /\ pr.labels = uninterrupted.w.labels
           /\ (result(uninterrupted)[1] # NoId)
                => /\ last.ticket # NoId
                   /\ issue_after(last.ticket) # NoIssue
                   /\ issue_after(last.ticket).status =
                        get_jira_issue(uninterrupted.w.issues,
                                       result(uninterrupted)[1]).status
                   /\ Len(comments) > 0
                   /\ comments[1].jira = last.ticket

\* The last step was the second delivery of the event of a completed run.
just_redelivered ==
    /\ delivery.kind = "redelivered"
    /\ budget.runs = delivery.runs /\ budget.events = delivery.events

\* C24: the run on the second delivery of the event of a completed run, with
\* no other event in between, returns changed = false and emits no action
\* that creates, deletes, transitions or updates an issue, relabels the pull
\* request, or edits or adds a comment.
C24_RedeliveryQuiet ==
    (just_redelivered /\ completed)
        => /\ ~last.changed
           /\ Len(emitted(MutatingActions)) = 0

\* C30: when a call of an action raises, the run ends without a result; the
\* call that raised was made once; the actions emitted are those the run
\* would have emitted before it, and no later one; and GitHub and Jira hold
\* what those actions left, none of them undone.
C30_FailureAborts ==
    just_aborted
        => /\ ~last.ok /\ last.err = "action"
           /\ last.ticket = NoId /\ ~last.changed
           /\ delivery.k <= Len(uninterrupted.acts)
           /\ delivery.failed = <<uninterrupted.acts[delivery.k]>>
           /\ last.acts = SubSeq(uninterrupted.acts, 1, delivery.k - 1)
           /\ issues = apply_all(delivery.before, last.acts).issues
           /\ comments = apply_all(delivery.before, last.acts).comments
           /\ pr.labels = apply_all(delivery.before, last.acts).labels

\* A run was aborted after it had created an issue: the issue is in Jira, and
\* no comment mentions it.
C30_Witness ==
    /\ just_aborted
    /\ issue_actions({"create_ospr_issue"}) # {}
    /\ issues # delivery.before.issues
    /\ comments = delivery.before.comments
    /\ delivery.failed[1].name = "add_comment_to_pull_request"

\* ---------------------------------------------------------------------------
\* SpecConcurrent: runs in flight at the same time
\* ---------------------------------------------------------------------------
(* Two events are being handled at once, for the same pull request or for   *)
(* two pull requests, each by its own PrTrackingFixer with its own sink.    *)
(* A run reads the current state when it starts and then makes the calls   *)
(* of fix one at a time; calls of the two runs interleave in every order.   *)
(* hist holds GitHub, Jira and jira_ids as they were when no run had        *)
(* started.                                                                 *)

Runs == {1, 2}
Pulls == {1, 2}

\* No event has come for the run yet.
Idle == [pc |-> "idle"]

\* The pull requests of SpecConcurrent: the first of any tracked kind, the
\* second an external contributor's.
FirstPulls ==
    {p \in [repo : {"edx/edx-platform"}, author : {"external", "committer", "contractor"},
            cla : BOOLEAN, state : {"open", "closed"}, merged : {FALSE}, draft : BOOLEAN,
            title : {"Fix", "[BD-34] Fix"}, body : {"Blah blah"},
            lines : {Lines(10)}, labels : {{}}] :
        /\ p.author # "external" => p.cla /\ ~p.draft /\ p.title = "Fix"
        /\ p.state = "closed" => p.cla /\ ~p.draft /\ p.title = "Fix"}

SecondPulls ==
    {p \in [repo : {"edx/edx-platform"}, author : {"external"},
            cla : BOOLEAN, state : {"open"}, merged : {FALSE}, draft : {FALSE},
            title : {"Fix", "[BD-34] Fix"}, body : {"Blah blah"},
            lines : {NoLines}, labels : {{}}] :
        p.title # "Fix" => p.cla}

InitConcurrent ==
    /\ \E p1 \in FirstPulls, p2 \in SecondPulls :
            github = <<[pr |-> p1, comments |-> <<>>], [pr |-> p2, comments |-> <<>>]>>
    /\ inflight = [r \in Runs |-> Idle]
    /\ epics = [id \in {"BD-34", "BD-35", "BD-36"} |->
                    CASE id = "BD-34" -> {Epic1}
                      [] id = "BD-35" -> {}
                      [] id = "BD-36" -> {Epic2, Epic3}]
    /\ issues = {}
    /\ nextKey = 1
    /\ repoLabels = "unsynced"
    /\ jira_ids = 9000
    /\ cla = NoCla
    /\ hist = [github |-> github, issues |-> issues, nextKey |-> nextKey,
               repoLabels |-> repoLabels, jira_ids |-> jira_ids]
    /\ pr = [none |-> TRUE]
    /\ comments = <<>>
    /\ last = NoRun
    /\ budget = [runs |-> 0, events |-> 0]
    /\ delivery = NoDelivery

\* The sink of a run on pull request n and what it acts on: Jira, the
\* comments and labels of that pull request, the class's jira_ids and the
\* instance's action_calls.
sink_world(g, iss, nk, rl, ids, n, sink, calls) ==
    [issues |-> iss, comments |-> g[n].comments, labels |-> g[n].pr.labels,
     nextKey |-> nk, repoLabels |-> rl,
     sink |-> sink, jira_ids |-> ids, action_calls |-> calls]

\* Mutant: every sink acts on the first pull request.
world_of_first_pull(r) ==
    sink_world(github, issues, nextKey, repoLabels, jira_ids,
               1, inflight[r].sink, inflight[r].action_calls)

\* FixingActions(self.prid): the sink of run r acts on the pull request of
\* the run
world_of(r) ==
    sink_world(github, issues, nextKey, repoLabels, jira_ids,
               inflight[r].n, inflight[r].sink, inflight[r].action_calls)

\* PrTrackingFixer.__init__: self.current is the state read when the run
\* started
fixer_current(r) == inflight[r].current

\* The fixer of run r at the end of fix, had it made all its calls now: the
\* calls it has made are the first of its actions, and the next one is the
\* call it makes next. create_ospr_issue returns the key it returned to this
\* run, or the one the sink would give now.
fixer_of(r) ==
    LET x == inflight[r]
    IN fix(PrTrackingFixer(x.pr, fixer_current(r), x.desired,
            [world_of(r) EXCEPT !.nextKey = IF x.key # 0 THEN x.key ELSE @,
                                !.jira_ids = IF x.key # 0 THEN x.key ELSE @,
                                !.action_calls = <<>>], 0))

\* An event for pull request n comes: the run takes the pull request as it
\* is and reads its current state; pull_request_changed returns at once
\* when the pull request is not tracked. With a dry-run sink the fixer's
\* first call, initial_state, is recorded.
start(r) ==
    /\ inflight[r].pc = "idle"
    /\ \E n \in (IF r = 1 THEN {1} ELSE Pulls), sink \in {"live", "dry"} :
        LET p == github[n].pr
            desired == desired_support_state(p, epics)
            current == current_support_state(p, github[n].comments, issues)
            w == sink_world(github, issues, nextKey, repoLabels, jira_ids, n, sink, <<>>)
        IN inflight' = [inflight EXCEPT ![r] =
                [pc |-> IF desired = NoDesired THEN "done" ELSE "fixing",
                 n |-> n, sink |-> sink, pr |-> p,
                 current |-> IF desired = NoDesired THEN PrCurrentInfo ELSE current,
                 desired |-> IF desired = NoDesired THEN PrDesiredInfo ELSE desired,
                 done |-> 0, key |-> 0, acts |-> <<>>,
                 action_calls |->
                    IF desired = NoDesired THEN <<>>
                    ELSE initial_state(PrTrackingFixer(p, current, desired, w, 0))
                            .w.action_calls,
                 result |-> <<NoId, FALSE>>]]
    /\ UNCHANGED <<pr, epics, issues, comments, nextKey, repoLabels, last, hist,
                   budget, delivery, github, jira_ids, cla>>

\* The run makes its next call of an action.
step(r) ==
    /\ inflight[r].pc = "fixing"
    /\ \E f \in {fixer_of(r)} :
        /\ inflight[r].done < Len(f.acts)
        /\ \E w \in {apply_action(world_of(r), f.acts[inflight[r].done + 1])} :
            /\ issues' = w.issues
            /\ nextKey' = w.nextKey
            /\ repoLabels' = w.repoLabels
            /\ jira_ids' = w.jira_ids
            /\ github' = [github EXCEPT ![inflight[r].n].comments = w.comments,
                                        ![inflight[r].n].pr.labels = w.labels]
            /\ inflight' = [inflight EXCEPT
                    ![r].done = @ + 1,
                    ![r].acts = Append(@, f.acts[inflight[r].done + 1]),
                    ![r].action_calls = w.action_calls,
                    ![r].key = IF f.acts[inflight[r].done + 1].name = "create_ospr_issue"
                               THEN new_issue(world_of(r),
                                              f.acts[inflight[r].done + 1]).key.num
                               ELSE @]
    /\ UNCHANGED <<pr, epics, comments, last, hist, budget, delivery, cla>>

\* fix has made all its calls: the run returns its result, or ends with the
\* error of a failed assert.
finish(r) ==
    /\ inflight[r].pc = "fixing"
    /\ \E f \in {fixer_of(r)} :
        /\ inflight[r].done = Len(f.acts)
        /\ inflight' = [inflight EXCEPT
                ![r].pc = IF f.ok THEN "done" ELSE "failed",
                ![r].result = IF f.ok THEN result(f) ELSE @]
    /\ UNCHANGED <<pr, epics, issues, comments, nextKey, repoLabels, last, hist,
                   budget, delivery, github, jira_ids, cla>>

NextConcurrent == \E r \in Runs : start(r) \/ step(r) \/ finish(r)

SpecConcurrent == InitConcurrent /\ [][NextConcurrent]_vars

\* The run has ended: it returned, or an assert failed.
ended(r) == inflight[r].pc \in {"done", "failed"}

\* The run emitted an action with the name.
has_emitted(r, name) ==
    \E i \in 1..Len(inflight[r].acts) : inflight[r].acts[i].name = name

\* Two runs with FixingActions for the same pull request: both read the
\* current state when the pull request had no bot comment (neither had
\* written the first comment), and the desired state has a Jira project.
raced(r1, r2) ==
    /\ r1 # r2
    /\ inflight[r1].pc # "idle" /\ inflight[r2].pc # "idle"
    /\ inflight[r1].n = inflight[r2].n
    /\ inflight[r1].sink = "live" /\ inflight[r2].sink = "live"
    /\ inflight[r1].desired.jira_project # NoneStr
    /\ inflight[r1].current.bot_comments = {}
    /\ inflight[r2].current.bot_comments = {}

\* C22: two runs for the same pull request that both read the current state
\* before either wrote the first comment both see no issue mentioned, and
\* when both have ended both have called create_ospr_issue, each got its own
\* key, and Jira holds two issues for the one pull request.
C22_DuplicateCreateRace ==
    \A r1, r2 \in Runs :
        raced(r1, r2)
            => /\ inflight[r1].current.jira_mentioned_id = NoId
               /\ inflight[r1].current.jira_id = NoId
               /\ (ended(r1) /\ ended(r2))
                    => /\ has_emitted(r1, "create_ospr_issue")
                       /\ has_emitted(r2, "create_ospr_issue")
                       /\ inflight[r1].key # inflight[r2].key
                       /\ Cardinality(issues) = 2

\* Both runs for one pull request have returned, each with the issue it
\* created: Jira holds two issues for the pull request.
C22_Witness ==
    /\ raced(1, 2)
    /\ inflight[1].pc = "done" /\ inflight[2].pc = "done"
    /\ inflight[1].result[1] # NoId /\ inflight[2].result[1] # NoId
    /\ inflight[1].result[1] # inflight[2].result[1]
    /\ Cardinality(issues) = 2
    /\ Len(github[1].comments) = 2

\* GitHub, Jira and jira_ids now.
external_state ==
    [github |-> github, issues |-> issues, nextKey |-> nextKey,
     repoLabels |-> repoLabels, jira_ids |-> jira_ids]

\* One whole run, alone, for pull request n with the sink, on GitHub, Jira
\* and jira_ids as S holds them: what it leaves, what it returns, and what a
\* dry-run sink recorded.
whole_run(S, n, sink) ==
    LET p == S.github[n].pr
        desired == desired_support_state(p, epics)
        f == fix(PrTrackingFixer(p,
                current_support_state(p, S.github[n].comments, S.issues), desired,
                sink_world(S.github, S.issues, S.nextKey, S.repoLabels, S.jira_ids,
                           n, sink, <<>>), 0))
    IN IF desired = NoDesired
       THEN [S |-> S, ok |-> TRUE, result |-> <<NoId, FALSE>>, action_calls |-> <<>>]
       ELSE [S |-> [github |-> [S.github EXCEPT ![n].comments = f.w.comments,
                                                ![n].pr.labels = f.w.labels],
                    issues |-> f.w.issues, nextKey |-> f.w.nextKey,
                    repoLabels |-> f.w.repoLabels, jira_ids |-> f.w.jira_ids],
             ok |-> f.ok,
             result |-> IF f.ok THEN result(f) ELSE <<NoId, FALSE>>,
             action_calls |-> f.w.action_calls]

\* The runs r1 and r2 have ended as they end when r1 runs alone from the
\* start and r2 runs alone after it.
as_one_after_the_other(r1, r2) ==
    LET a == whole_run(hist, inflight[r1].n, inflight[r1].sink)
        b == whole_run(a.S, inflight[r2].n, inflight[r2].sink)
    IN /\ external_state = b.S
       /\ (inflight[r1].pc = "done") = a.ok
       /\ inflight[r1].result = a.result
       /\ inflight[r1].action_calls = a.action_calls
       /\ (inflight[r2].pc = "done") = b.ok
       /\ inflight[r2].result = b.result
       /\ inflight[r2].action_calls = b.action_calls

\* Both runs have ended, and they were for different pull requests.
ended_apart ==
    /\ ended(1) /\ ended(2)
    /\ inflight[1].n # inflight[2].n

\* C23 as amended: whatever the order of the calls of two runs for different
\* pull requests, with either sink, they leave GitHub, Jira and jira_ids, and
\* return the results, of the two runs made one after the other in one of
\* the two orders.
C23_Serializable ==
    ended_apart => (as_one_after_the_other(1, 2) \/ as_one_after_the_other(2, 1))

\* The two runs for different pull requests have both created an issue, and
\* the run that started from the second pull request got the lower key.
C23_Witness ==
    /\ ended_apart
    /\ inflight[1].sink = "live" /\ inflight[2].sink = "live"
    /\ inflight[1].key # 0 /\ inflight[2].key # 0
    /\ inflight[2].key < inflight[1].key
    /\ Len(github[1].comments) = 1 /\ Len(github[2].comments) = 1

\* C23 as stated, for the dry-run sink: the runs share no mutable state, so
\* a dry run, which changes nothing in GitHub or Jira, returns for its pull
\* request what it returns when it is the only run.
C23_DryRunsShareNothing ==
    (ended_apart /\ inflight[1].sink = "dry" /\ inflight[2].sink = "dry")
        => \A r \in Runs :
                inflight[r].result = whole_run(hist, inflight[r].n, "dry").result

\* Run r has a dry-run sink.
dry(r) == inflight[r].pc # "idle" /\ inflight[r].sink = "dry"

\* What a dry-run sink holds and has handed out.
dry_sink_records ==
    \A r \in Runs :
        dry(r)
            => /\ inflight[r].action_calls =
                    <<[name |-> "initial_state",
                       current |-> inflight[r].current,
                       desired |-> inflight[r].desired]>> \o inflight[r].acts
               /\ inflight[r].key # 0
                    => /\ 9000 <= inflight[r].key /\ inflight[r].key < jira_ids
                       /\ \A q \in Runs \ {r} :
                            dry(q) => inflight[q].key # inflight[r].key
               /\ (inflight[r].pc = "done" /\ inflight[r].key # 0)
                    => inflight[r].result[1] = [proj |-> "OSPR", num |-> inflight[r].key]

\* What a step of a run with a dry-run sink changes.
dry_sink_step ==
    \A r \in Runs :
        (inflight'[r].pc # "idle" /\ inflight'[r].sink = "dry"
         /\ inflight'[r] # inflight[r])
            => /\ UNCHANGED <<issues, github, nextKey, repoLabels>>
               /\ jira_ids' >= jira_ids
               /\ (inflight[r].pc # "idle" /\ inflight'[r].key # inflight[r].key)
                    => /\ inflight'[r].key = jira_ids
                       /\ jira_ids' = jira_ids + 1

\* C25: the action_calls of a dry-run sink are the initial_state call and
\* then every action the fixer has called, with its arguments, in the order
\* of the calls; no step of a run with a dry-run sink changes GitHub or
\* Jira; and each create_ospr_issue of a dry-run sink, whichever instance it
\* is, returns OSPR-n with n the value of jira_ids, which then grows by one,
\* so the ids handed out differ and grow from one create call to the next.
C25_DryRunSink == [](dry_sink_records) /\ [][dry_sink_step]_vars

\* Two dry runs have both ended with an issue key of their own, and Jira
\* holds no issue.
C25_Witness ==
    /\ dry(1) /\ dry(2)
    /\ inflight[1].pc = "done" /\ inflight[2].pc = "done"
    /\ {inflight[1].key, inflight[2].key} = {9000, 9001}
    /\ jira_ids = 9002
    /\ issues = {}
    /\ Len(inflight[1].action_calls) > 3

\* ---------------------------------------------------------------------------
\* Further properties of the reconciliation runs (Spec)
\* ---------------------------------------------------------------------------

\* The run was on an open pull request whose first bot comment remembers a
\* draft flag that is not the one the pull request has now.
draft_flag_changed ==
    /\ completed /\ last.tracked
    /\ last.pr.state = "open"
    /\ last.current.bot_comment0_text # NoText
    /\ DictGet(last.current.last_seen_state, "draft", FALSE) # last.pr.draft

\* C31: the data in every primary comment a run writes record draft as the
\* draft flag of the pull request the run read; and a run on an open pull
\* request whose first comment remembers another draft flag rewrites the
\* first comment, even when nothing else differs, so that the draft flag the
\* next run reads from the comment is the one the pull request has.
C31_DraftFlagRecorded ==
    (last.ran /\ last.tracked)
        => /\ \A i \in 1..Len(primary_comment_actions) :
                LET data == extract_data_from_comment(primary_comment_actions[i].comment_body)
                IN "draft" \in DOMAIN data /\ data["draft"] = last.pr.draft
           /\ draft_flag_changed
                => /\ Len(emitted({"edit_comment_on_pull_request"})) = 1
                   /\ DictGet(current_support_state(pr, comments, issues).last_seen_state,
                              "draft", ~pr.draft) = pr.draft

\* C31 happens: the draft flag of a contractor's pull request changed and
\* nothing else did; the run did nothing but rewrite the first comment.
C31_Witness ==
    /\ draft_flag_changed
    /\ Len(emitted(MutatingActions)) = 1
    /\ Len(emitted({"edit_comment_on_pull_request"})) = 1
    /\ extract_data_from_comment(comments[1])["draft"] = pr.draft

\* The run found an issue and kept it: it deleted none and created none.
kept_issue ==
    /\ completed /\ last.tracked
    /\ last.current.jira_id # NoId
    /\ Len(emitted({"delete_jira_issue", "create_ospr_issue"})) = 0

\* The updates of the last run that write the epic link of an issue.
epic_link_updates ==
    SelectSeq(last.acts, LAMBDA a :
        /\ a.name = "update_jira_issue"
        /\ \/ "epic_link" \in DOMAIN a.update_kwargs
           \/ /\ "extra_fields" \in DOMAIN a.update_kwargs
              /\ "Epic Link" \in DOMAIN a.update_kwargs["extra_fields"])

\* C32: a run that keeps the issue it found emits an update of the epic link
\* exactly when an epic is desired and its key is not the epic link the issue
\* has; the update carries the key of the desired epic. When the keys are
\* equal there is no such update and the fixer has the desired epic as the
\* current one (the first comment it renders for an open blended pull request
\* names it). When no epic is desired the epic link of the issue is after
\* the run what it was before.
C32_EpicLink ==
    kept_issue
        => LET des == last.desired.jira_epic
               cur == last.current.jira_epic_key
           IN /\ Len(epic_link_updates) > 0 <=> (des # NoEpic /\ des.key # cur)
              /\ \A i \in 1..Len(epic_link_updates) :
                    /\ epic_link_updates[i].jira_id = last.current.jira_id
                    /\ DOMAIN epic_link_updates[i].update_kwargs \cap {"epic_link"} # {}
                    /\ epic_link_updates[i].update_kwargs["epic_link"] = des.key
              /\ (des # NoEpic /\ des.key = cur /\ last.pr.state = "open")
                    => comments[1].epic = des.key
              /\ des = NoEpic => issue_after(last.ticket).epic_link = cur
              /\ des # NoEpic => issue_after(last.ticket).epic_link = des.key

\* C32 happens: somebody gave the issue of a blended pull request another
\* epic, and the run put the epic of the blended project back.
C32_Witness ==
    /\ kept_issue
    /\ last.desired.jira_epic = Epic1
    /\ last.current.jira_epic_key = Epic2.key
    /\ Len(epic_link_updates) = 1
    /\ issue_after(last.ticket).epic_link = Epic1.key

\* The comments the last run added that are no primary comments.
secondary_comment_actions ==
    SelectSeq(last.acts, LAMBDA a :
        a.name = "add_comment_to_pull_request" /\ ~is_primary(a.comment_body))

\* The bot comments on the pull request that are champion merge pings.
merge_pings == {i \in 1..Len(comments) : "CHAMPION_MERGE_PING" \in comment_kinds(comments[i])}

\* C33: a completed run adds the champion merge ping, as a comment of its own,
\* exactly when the ping is desired and no bot comment the run found holds one;
\* it adds no other secondary comment; the pull request never carries more
\* than one merge ping, and carries one after every completed run that
\* desires it.
C33_SecondaryOnce ==
    /\ Cardinality(merge_pings) <= 1
    /\ (completed /\ last.tracked)
        => /\ Len(secondary_comment_actions) = 1
                <=> /\ "CHAMPION_MERGE_PING" \in last.desired.bot_comments
                    /\ "CHAMPION_MERGE_PING" \notin last.current.bot_comments
           /\ Len(secondary_comment_actions) <= 1
           /\ \A i \in 1..Len(secondary_comment_actions) :
                secondary_comment_actions[i].comment_body = merge_ping_text
           /\ "CHAMPION_MERGE_PING" \in last.desired.bot_comments
                => Cardinality(merge_pings) = 1

\* C33 happens: a second run on a merged pull request of a core committer
\* found the merge ping of the first and added none.
C33_Witness ==
    /\ completed /\ last.tracked /\ hist.consec
    /\ last.pr.state = "closed" /\ last.pr.merged
    /\ "CHAMPION_MERGE_PING" \in last.desired.bot_comments
    /\ "CHAMPION_MERGE_PING" \in last.current.bot_comments
    /\ Len(secondary_comment_actions) = 0
    /\ Cardinality(merge_pings) = 1

\* ---------------------------------------------------------------------------
\* SpecAuthor: the pull request of an author whose kind changes
\* ---------------------------------------------------------------------------
\* desired_support_state asks on every run whether the author is a contractor
\* or a core committer; between two runs the answer can change, and the bot
\* comments and the issue the second run finds are those of the first policy.

\* runs and outside events explored in one behaviour of SpecAuthor
MaxAuthorRuns == 2
MaxAuthorEvents == 2

TrackedAuthors == {"external", "committer", "contractor"}

InitAuthor ==
    /\ pr \in [repo : {"edx/edx-platform"},
               author : TrackedAuthors, cla : BOOLEAN, state : {"open"}, merged : {FALSE},
               draft : BOOLEAN, title : {"Fix", "[BD-34] Fix"},
               body : {"Blah blah"}, lines : {Lines(10)}, labels : {{}}]
    /\ epics = [id \in {"BD-34", "BD-35", "BD-36"} |->
                    CASE id = "BD-34" -> {Epic1}
                      [] id = "BD-35" -> {}
                      [] id = "BD-36" -> {Epic2, Epic3}]
    /\ issues = {}
    /\ comments = <<>>
    /\ nextKey = 1
    /\ repoLabels = "unsynced"
    /\ last = NoRun
    /\ hist = [quiet |-> FALSE, consec |-> FALSE, prev_ticket |-> NoId, unblocked |-> NoId]
    /\ budget = [runs |-> MaxAuthorRuns, events |-> MaxAuthorEvents]
    /\ delivery = NoDelivery
    /\ github = <<>>
    /\ inflight = <<>>
    /\ jira_ids = 9000
    /\ cla = NoCla

\* The author becomes a contractor or a core committer, or stops being one.
AuthorKindChanged ==
    \E a \in TrackedAuthors \ {pr.author} : pr_event([pr EXCEPT !.author = a])

NextAuthor ==
    \/ pull_request_changed
    \/ AuthorKindChanged
    \/ EditTitle
    \/ ToggleDraft
    \/ CloseOrMerge
    \/ SignAgreement
    \/ JiraMove
    \/ JiraDelete

SpecAuthor == InitAuthor /\ [][NextAuthor]_vars

\* The run was on a pull request whose issue situation is the one the policy
\* makes: an issue is linked only if an issue is wanted.
policy_matches ==
    /\ last.ran /\ last.tracked
    /\ last.current.jira_mentioned_id # NoId => last.desired.jira_project # NoneStr

\* C34: a run on a pull request with the issue situation of the policy ends
\* without a failed assertion, whatever bot comments and issue an earlier
\* policy left; and when the first-comment pass ran, every desired comment
\* kind is in the bot comments after the run, as a block or as a part of one.
C34_NoContractViolation ==
    policy_matches
        => /\ last.ok /\ last.err # "assert"
           /\ ~closed_with_comments
                => last.desired.bot_comments \subseteq existing_bot_comments(comments)[2]

\* C34 happens: the author of a draft pull request without an agreement had
\* become a core committer; the run found the welcome comment and rendered
\* the committer's with the draft and agreement sentences.
C34_Witness ==
    /\ policy_matches /\ last.ok
    /\ "WELCOME" \in last.current.bot_comments
    /\ {"CORE_COMMITTER", "END_OF_WIP", "NEED_CLA"} \subseteq last.desired.bot_comments
    /\ Len(emitted({"edit_comment_on_pull_request"})) = 1
    /\ comment_kinds(comments[1]) = {"CORE_COMMITTER", "END_OF_WIP", "NEED_CLA"}

\* The run was on a pull request for which no issue is desired and that has
\* an issue linked.
unwanted_issue_linked ==
    /\ last.ran /\ last.tracked
    /\ last.desired.jira_project = NoneStr
    /\ last.current.jira_id # NoId

\* C35: a run on a pull request for which no issue is desired (a
\* contractor's) and that has an issue linked ends without a failed
\* assertion; and if it deleted the issue it finished the rest of the run:
\* the pull request carries no label of the bot that is not desired, and the
\* first comment of an open pull request is the contractor's.
C35_UnwantedIssue ==
    unwanted_issue_linked
        => /\ last.ok /\ last.err # "assert"
           /\ Len(emitted({"delete_jira_issue"})) > 0
                => /\ pr.labels \cap (GITHUB_CATEGORY_LABELS \cup GITHUB_STATUS_LABELS)
                        = last.desired.github_labels
                   /\ last.pr.state = "open"
                        => comment_kinds(comments[1]) = last.desired.bot_comments

\* ---------------------------------------------------------------------------
\* Further properties of the reconciliation runs (Spec), continued
\* ---------------------------------------------------------------------------

\* C36: in a completed run that creates an issue, create_ospr_issue is given
\* every desired field (project, title, description, labels, the epic link
\* and the extra fields), and the run emits no update_jira_issue for the issue
\* it created.
C36_NoUpdateAfterCreate ==
    (completed /\ last.tracked /\ Len(emitted({"create_ospr_issue"})) > 0)
        => LET create == emitted({"create_ospr_issue"})[1]
               des == last.desired
           IN /\ create.project = des.jira_project
              /\ create.summary = des.jira_title
              /\ create.description = des.jira_description
              /\ create.labels = des.jira_labels
              /\ des.jira_epic # NoEpic
                    => DictGet(create.extra_fields, "Epic Link", NoId) = des.jira_epic.key
              /\ \A k \in DOMAIN des.jira_extra_fields :
                    DictGet(create.extra_fields, k, NoneStr) = des.jira_extra_fields[k]
              /\ \A i \in 1..Len(last.acts) :
                    last.acts[i].name = "update_jira_issue"
                        => last.acts[i].jira_id # last.ticket

\* C37: whenever a completed run returns an issue key and an issue project is
\* desired, the project of the returned key is the desired project, also when
\* somebody moved the issue to another project and the key the first comment
\* mentions still names the desired project.
C37_ReturnedInDesiredProject ==
    (completed /\ last.tracked
        /\ last.ticket # NoId /\ last.desired.jira_project # NoneStr)
        => project_of(last.ticket) = last.desired.jira_project

\* C38: a completed run that returns changed = false has emitted no
\* add_comment_to_pull_request, neither for the first comment nor for a
\* secondary comment such as the champion merge ping.
C38_UnchangedAddsNoComment ==
    (completed /\ last.tracked /\ ~last.changed)
        => Len(emitted({"add_comment_to_pull_request"})) = 0

\* ---------------------------------------------------------------------------
\* SpecCla: github/dispatcher/actions/utils.py, update_commit_status_for_cla
\* ---------------------------------------------------------------------------
\* pr is the pull request the function is given.  cla is [commits, statuses,
\* newest_first, last, budget]: commits is the list GET .../pulls/<n>/commits
\* returns; statuses[sha] holds the statuses posted for a commit, in the order
\* they were posted; newest_first tells in which order GET .../statuses/<sha>
\* lists them (GitHub lists the latest first; the other order is that of a
\* server that lists them as posted); last is the last call of
\* update_commit_status_for_cla.

\* calls of update_commit_status_for_cla and events between them explored in
\* one behaviour
MaxClaCalls == 3
MaxClaEvents == 2

Shas == {"sha-a", "sha-b"}

NoClaCall == [called |-> FALSE, sha |-> NoneStr, ret |-> NoneStr, reads |-> 0, posts |-> 0,
              shown |-> NoneStr, status |-> NoneStr, again |-> FALSE, posts_before |-> 0]

\* s[::-1]
Reverse(s) == [i \in 1..Len(s) |-> s[Len(s) + 1 - i]]

\* _get_latest_commit_for_pull_request: the sha of the last commit of data,
\* None when there is no commit
_get_latest_commit_for_pull_request(data) ==
    LET commit == IF Len(data) > 0 THEN data[Len(data)] ELSE EmptyDict
    IN DictGet(commit, "sha", NoneStr)

\* The response of GET .../statuses/<sha>.
statuses_listed(c, sha) ==
    IF c.newest_first THEN Reverse(c.statuses[sha]) ELSE c.statuses[sha]

\* _get_commit_status_for_cla: the state of the last status of data with the
\* context 'cla', None when there is none
_get_commit_status_for_cla(data) ==
    LET cla_status == SelectSeq(data, LAMBDA status : DictGet(status, "context", NoneStr) = "cla")
    IN IF Len(cla_status) > 0
       THEN DictGet(cla_status[Len(cla_status)], "state", NoneStr)
       ELSE NoneStr

\* The state GitHub shows for a context of a commit: that of the status
\* posted last.
state_shown(posted, context) ==
    LET of == SelectSeq(posted, LAMBDA status : status["context"] = context)
    IN IF Len(of) > 0 THEN of[Len(of)]["state"] ELSE NoneStr

\* update_commit_status_for_cla: what it returns, the statuses it leaves, and
\* how many times it read and posted statuses.  _update_commit_status_for_cla
\* returns the status GitHub made of the payload.
update_commit_status_for_cla(p, c) ==
    LET sha == _get_latest_commit_for_pull_request(c.commits)
        has_signed_agreement == pull_request_has_cla(p)
        status == IF has_signed_agreement THEN "success" ELSE "failure"
        state == _get_commit_status_for_cla(statuses_listed(c, sha))
        payload == [k \in {"context", "state"} |-> IF k = "context" THEN "cla" ELSE status]
        data == payload
        returned == IF status = "success" THEN "True" ELSE "False"
    IN IF sha = NoneStr
       THEN [ret |-> "None", statuses |-> c.statuses, reads |-> 0, posts |-> 0,
             sha |-> sha, status |-> status]
       ELSE IF state # status
       THEN [ret |-> IF data = EmptyDict THEN "None" ELSE returned,
             statuses |-> [c.statuses EXCEPT ![sha] = Append(@, payload)],
             reads |-> 1, posts |-> 1, sha |-> sha, status |-> status]
       ELSE [ret |-> returned, statuses |-> c.statuses, reads |-> 1, posts |-> 0,
             sha |-> sha, status |-> status]

InitCla ==
    /\ pr \in [repo : {"edx/edx-platform"}, number : {1}, author : {"external"},
               cla : BOOLEAN]
    /\ \E commits \in {<<>>, <<[sha |-> "sha-a"]>>}, newest_first \in BOOLEAN :
        cla = [commits |-> commits,
               statuses |-> [sha \in Shas |-> <<>>],
               newest_first |-> newest_first,
               last |-> NoClaCall,
               budget |-> [calls |-> MaxClaCalls, events |-> MaxClaEvents]]
    /\ epics = [id \in {} |-> {}]
    /\ issues = {}
    /\ comments = <<>>
    /\ nextKey = 1
    /\ repoLabels = "unsynced"
    /\ last = NoRun
    /\ hist = [quiet |-> FALSE, consec |-> FALSE, prev_ticket |-> NoId, unblocked |-> NoId]
    /\ budget = [runs |-> 0, events |-> 0]
    /\ delivery = NoDelivery
    /\ github = <<>>
    /\ inflight = <<>>
    /\ jira_ids = 9000

\* One call of update_commit_status_for_cla(pull_request).
cla_status_updated ==
    /\ cla.budget.calls > 0
    /\ \E u \in {update_commit_status_for_cla(pr, cla)} :
        cla' = [cla EXCEPT
                  !.statuses = u.statuses,
                  !.budget.calls = @ - 1,
                  !.last = [called |-> TRUE, sha |-> u.sha, ret |-> u.ret,
                            reads |-> u.reads, posts |-> u.posts,
                            shown |-> IF u.sha = NoneStr THEN NoneStr
                                      ELSE state_shown(cla.statuses[u.sha], "cla"),
                            status |-> u.status,
                            again |-> cla.last.called,
                            posts_before |-> cla.last.posts]]
    /\ UNCHANGED <<pr, epics, issues, comments, nextKey, repoLabels, last, hist, budget,
                   delivery, github, inflight, jira_ids>>

\* Something changes between two calls; the model follows it only while a
\* call is still to come.
cla_event(p, c) ==
    /\ cla.budget.calls > 0 /\ cla.budget.events > 0
    /\ pr' = p
    /\ cla' = [c EXCEPT !.budget.events = @ - 1, !.last = NoClaCall]
    /\ UNCHANGED <<epics, issues, comments, nextKey, repoLabels, last, hist, budget,
                   delivery, github, inflight, jira_ids>>

\* The author pushes a commit.
PushCommit ==
    \E sha \in Shas \ {cla.commits[i].sha : i \in 1..Len(cla.commits)} :
        cla_event(pr, [cla EXCEPT !.commits = Append(@, [sha |-> sha])])

\* The agreement of the author is signed, or no longer holds.
AgreementChanged == cla_event([pr EXCEPT !.cla = ~@], cla)

\* Another service posts a status of its own for the latest commit.
OtherStatusPosted ==
    /\ Len(cla.commits) > 0
    /\ \E s \in {"pending", "success"} :
        cla_event(pr, [cla EXCEPT
            !.statuses[cla.commits[Len(cla.commits)].sha] =
                Append(@, [k \in {"context", "state"} |-> IF k = "context" THEN "ci" ELSE s])])

NextCla ==
    \/ cla_status_updated
    \/ PushCommit
    \/ AgreementChanged
    \/ OtherStatusPosted

SpecCla == InitCla /\ [][NextCla]_vars

\* C39: a call of update_commit_status_for_cla for a pull request without a
\* latest commit returns None and neither reads nor posts a status; a call for
\* one with a latest commit posts a 'cla' status only when the 'cla' state
\* of that commit differs from success (agreement signed) or failure (not
\* signed), posts that state, and returns true exactly when the agreement is
\* signed; of two calls with no change in between at most one posts.
C39_ClaStatus ==
    cla.last.called
        => /\ cla.last.sha = NoneStr
                => cla.last.ret = "None" /\ cla.last.reads = 0 /\ cla.last.posts = 0
           /\ cla.last.sha # NoneStr
                => /\ cla.last.posts <= 1
                   /\ cla.last.posts = 1 => cla.last.shown # cla.last.status
                   /\ cla.last.posts = 1
                        => state_shown(cla.statuses[cla.last.sha], "cla") = cla.last.status
                   /\ cla.last.status = (IF pull_request_has_cla(pr) THEN "success" ELSE "failure")
                   /\ cla.last.ret = (IF pull_request_has_cla(pr) THEN "True" ELSE "False")
           /\ cla.last.again => cla.last.posts + cla.last.posts_before <= 1

====
